---- MODULE Spec2Model ----
(***************************************************************************)
(* A model of the transit router: the indexed GTFS feed, its augmentation  *)
(* with query locations, the RAPTOR rounds and the OnlineRouter queries.   *)
(*                                                                         *)
(* Conventions of the model                                                *)
(*  - The world is one-dimensional: every stop and location lies on the    *)
(*    line stopLat = 0 and stopLng is an integer number of kilometres, so  *)
(*    that every distance (haversine or flat-earth) is |lng1 - lng2|.      *)
(*  - Numbers are integers.  Infinity and NaN are two reserved integers;   *)
(*    the Js* operators give them their JavaScript meaning.                *)
(*  - An optional field is a sequence of length 0 (undefined) or 1.        *)
(*  - JavaScript objects that the code shares between feeds live in `heap` *)
(*    and are named by their address; ReachInfo objects live in rs.objs.   *)
(***************************************************************************)
EXTENDS Integers, Sequences, FiniteSets, TLC

VARIABLES
  load,         \* the call of a feed-loading function: what it was given and returned
  loadOptions,  \* the Options the router was constructed with (this.options)
  heap,         \* the shared mutable objects of all feeds, by address
  router,       \* the OnlineRouter: its feed, its preset feeds, and heapBase, the
                \* number of objects that exist once it is loaded
  pc,           \* "idle" | "routing" | "result"
  query,        \* the query being served
  qfeed,        \* the (augmented) feed the query routes on
  rs,           \* the state of the running raptor() call
  result        \* what the last query returned

vars == <<load, loadOptions, heap, router, pc, query, qfeed, rs, result>>

Null == "null"

----------------------------------------------------------------------------
(* JavaScript numbers *)

Infinity == 1000000
NaN == 0 - 1000000

JsLe(a, b) == a # NaN /\ b # NaN /\ a <= b
JsLt(a, b) == a # NaN /\ b # NaN /\ a < b
JsGt(a, b) == a # NaN /\ b # NaN /\ a > b
JsGe(a, b) == a # NaN /\ b # NaN /\ a >= b

JsAdd(a, b) ==
  IF a = NaN \/ b = NaN THEN NaN
  ELSE IF a = Infinity \/ b = Infinity THEN Infinity
  ELSE a + b

\* Math.min(a, b) where b may be undefined: anything that is not a number gives NaN.
MathMin(a, b) ==
  IF Len(b) = 0 \/ a = NaN THEN NaN
  ELSE IF b[1] = NaN THEN NaN
  ELSE IF a <= b[1] THEN a ELSE b[1]

\* if (x): undefined, 0 and NaN are falsy.
Truthy(m) == Len(m) = 1 /\ m[1] # 0 /\ m[1] # NaN

Abs(x) == IF x < 0 THEN 0 - x ELSE x

\* An optional number used in arithmetic: undefined behaves as NaN.
Num(m) == IF Len(m) = 0 THEN NaN ELSE m[1]

----------------------------------------------------------------------------
(* lodash helpers *)

\* The permutation a stable ascending sort applies to a list with these keys.
StableOrder(keys) ==
  LET n == Len(keys)
      rank(i) == Cardinality({j \in 1..n :
                   keys[j] < keys[i] \/ (keys[j] = keys[i] /\ j < i)}) + 1
  IN [r \in 1..n |-> CHOOSE i \in 1..n : rank(i) = r]

\* _.sortBy(xs, key), the keys given as a list parallel to xs.
SortBy(xs, keys) ==
  LET ord == StableOrder(keys) IN [r \in 1..Len(xs) |-> xs[ord[r]]]

RECURSIVE Filter(_, _)
\* xs.filter(i => keep[i]), keep a list of booleans parallel to xs.
Filter(xs, keep) ==
  IF Len(xs) = 0 THEN <<>>
  ELSE (IF Head(keep) THEN <<Head(xs)>> ELSE <<>>) \o Filter(Tail(xs), Tail(keep))

Range(xs) == {xs[i] : i \in 1..Len(xs)}

\* xs.indexOf(x) !== -1
Includes(xs, x) == \E i \in 1..Len(xs) : xs[i] = x

RECURSIVE Flatten(_)
\* _.flatten(xss)
Flatten(xss) == IF Len(xss) = 0 THEN <<>> ELSE Head(xss) \o Flatten(Tail(xss))

\* xs.map(f) followed by _.flatten
FlatMap(xs, F(_)) == Flatten([i \in 1..Len(xs) |-> F(xs[i])])

NoRepeat(xs) == \A i \in 1..Len(xs) : \A j \in 1..Len(xs) : xs[i] = xs[j] => i = j

\* xs.filter(p)
Select(xs, P(_)) == Filter(xs, [i \in 1..Len(xs) |-> P(xs[i])])

\* _.uniqBy(xs, x => x.stopId): the first element of each stopId is kept.
\* uniqBy on stopId keeping, of edges, the one of the fewest seconds, the earlier one
\* of equals.
UniqByStopIdCheapest(xs) ==
  Filter(xs, [i \in 1..Len(xs) |->
                ~ \E j \in 1..Len(xs) :
                    /\ xs[j].stopId = xs[i].stopId
                    /\ IF "secs" \in DOMAIN xs[i]
                       THEN \/ xs[j].secs[1] < xs[i].secs[1]
                            \/ (xs[j].secs[1] = xs[i].secs[1] /\ j < i)
                       ELSE j < i])

UniqByStopId(xs) ==
  Filter(xs, [i \in 1..Len(xs) |-> ~ \E j \in 1..(i - 1) : xs[j].stopId = xs[i].stopId])

----------------------------------------------------------------------------
(* The GTFS feed that is loaded: a town on a line.                          *)
(*                                                                         *)
(*   S1(0) ---- S2(2) - S3(3) ------ S4(6) --~7~-- S5(9)        S6(30)     *)
(*                                                                         *)
(*   t1 rail ->  S1@10  S2@12  S4@20            (shape shR)                *)
(*   t2 bus  ->  S1@11  S3@18  S4@30            (no shape_id)              *)
(*   t3 rail <-  S4@22  S2@26  S1@30            (no shape_id)              *)
(*   t4 bus  ->  S3@15  S5@25                   (shape shB, direction 1)   *)
(*   t5 bus  ->  S6@5   S4@24  S6@40            (no shape_id, a loop)      *)
(*   A river crosses the line at 7.                                        *)

FeedName == "town"

Stop(id, lng) ==
  [stopId |-> id, stopLat |-> 0, stopLng |-> lng, parentStation |-> Null, feed |-> FeedName]

RawStops ==
  << Stop("S1", 0), Stop("S2", 2), Stop("S3", 3), Stop("S4", 6), Stop("S5", 9),
     Stop("S6", 30) >>

ST(trip, stop, seq, secs) ==
  [tripId |-> trip, stopId |-> stop, stopSequence |-> seq, timeOfDaySec |-> secs]

\* stop_times.txt, in file order; timeOfDaySec is the parsed departure_time.
RawStopTimes ==
  << ST("t1", "S1", 1, 10), ST("t1", "S2", 2, 12), ST("t1", "S4", 3, 20),
     ST("t2", "S3", 2, 18), ST("t2", "S1", 1, 11), ST("t2", "S4", 3, 30),
     ST("t3", "S4", 1, 22), ST("t3", "S2", 2, 26), ST("t3", "S1", 3, 30),
     ST("t4", "S3", 5, 15), ST("t4", "S5", 10, 25),
     ST("t5", "S6", 1, 5), ST("t5", "S4", 2, 24), ST("t5", "S6", 3, 40) >>

RawTrips ==
  << [trip_id |-> "t1", route_id |-> "rail", direction_id |-> 0, shape_id |-> "shR"],
     [trip_id |-> "t2", route_id |-> "bus",  direction_id |-> 0, shape_id |-> Null],
     [trip_id |-> "t3", route_id |-> "rail", direction_id |-> 1, shape_id |-> Null],
     [trip_id |-> "t4", route_id |-> "bus",  direction_id |-> 1, shape_id |-> "shB"],
     [trip_id |-> "t5", route_id |-> "bus",  direction_id |-> 0, shape_id |-> Null] >>

RawRoutes ==
  << [route_id |-> "bus", route_type |-> "Bus"],
     [route_id |-> "rail", route_type |-> "Subway"] >>

Shape(id, seq, lng) ==
  [shape_id |-> id, shape_pt_sequence |-> seq, shape_pt_lat |-> 0, shape_pt_lon |-> lng]

RawShapes ==
  << Shape("shR", 1, 0), Shape("shR", 2, 2), Shape("shR", 3, 6),
     Shape("shB", 1, 3), Shape("shB", 2, 9) >>

\* transfers.txt is absent.
RawTransfers == <<>>

\* The water GeoJSON: river centre lines, each crossing the line of the town at one longitude.
Water == {7}

StopIds == {RawStops[i].stopId : i \in 1..Len(RawStops)}
TripIds == {RawTrips[i].trip_id : i \in 1..Len(RawTrips)}
RouteIds == {RawRoutes[i].route_id : i \in 1..Len(RawRoutes)}
ShapeIds == {RawShapes[i].shape_id : i \in 1..Len(RawShapes)}

\* Every id that occurs, in lexicographic order (JavaScript compares ids as strings).
IdOrder == << "S1", "S2", "S3", "S4", "S5", "S6", "ZZ", "d1", "d2", "d3", "o" >>
IdRank(id) == CHOOSE i \in 1..Len(IdOrder) : IdOrder[i] = id

----------------------------------------------------------------------------
(* Water filter *)

\* turn() of a point on the town's line against a river line at longitude w.
Side(lng, w) == IF lng < w THEN 0 - 1 ELSE IF lng > w THEN 1 ELSE 0

\* Does the straight walk between two points of the line cross a river?  The river
\* line runs from south to north of the town's line, so its two ends are always on
\* opposite sides of a walk of non-zero length.
waterFilter(lng1, lng2) ==
  \E w \in Water : Side(lng1, w) # Side(lng2, w) /\ lng1 # lng2

----------------------------------------------------------------------------
(* Indexing (the IndexedGTFS constructor) *)

\* utils.groupAndSort(stopTimes, 'stopId', 'timeOfDaySec')[stopId]
indexByStop(stopTimes, stopId) ==
  LET g == Select(stopTimes, LAMBDA st : st.stopId = stopId)
  IN SortBy(g, [i \in 1..Len(g) |-> g[i].timeOfDaySec])

\* utils.groupAndSort(stopTimes, 'tripId', 'stopSequence')[tripId]
indexByTrip(stopTimes, tripId) ==
  LET g == Select(stopTimes, LAMBDA st : st.tripId = tripId)
  IN SortBy(g, [i \in 1..Len(g) |-> g[i].stopSequence])

\* utils.groupAndSort(shapes, 'shape_id', 'shape_pt_sequence')[shapeId]
indexShapes(shapes, shapeId) ==
  LET g == Select(shapes, LAMBDA sh : sh.shape_id = shapeId)
  IN SortBy(g, [i \in 1..Len(g) |-> g[i].shape_pt_sequence])

\* The indices that no code ever writes to after loading are kept as values.
\* A stop without stop-times has no key in stopIdToStopTimes.
stopIdToStopTimes ==
  LET served == {RawStopTimes[i].stopId : i \in 1..Len(RawStopTimes)}
  IN [s \in served |-> indexByStop(RawStopTimes, s)]

tripIdToStopTime == [t \in TripIds |-> indexByTrip(RawStopTimes, t)]

tripIdToTrip ==
  [t \in TripIds |-> CHOOSE tr \in Range(RawTrips) : tr.trip_id = t]

routeIdToRoute ==
  [r \in RouteIds |-> CHOOSE ro \in Range(RawRoutes) : ro.route_id = r]

\* indexParents(stops)[parent]: the children of a parent station, in stops order.
indexParents(stops, parent) ==
  LET ch == Select(stops, LAMBDA s : s.parentStation = parent)
  IN [i \in 1..Len(ch) |-> ch[i].stopId]

\* The parent stations, in the order in which _.groupBy first meets them.
ParentOrder(stops) ==
  LET withParent == Select(stops, LAMBDA s : s.parentStation # Null)
      ps == [i \in 1..Len(withParent) |-> withParent[i].parentStation]
  IN Filter(ps, [i \in 1..Len(ps) |-> ~ \E j \in 1..(i - 1) : ps[j] = ps[i]])

\* indexRoutesByStop: the routes serving a stop (sorted and unique, hence a set).
indexRoutesByStop(stopTimes, stopId) ==
  {tripIdToTrip[st.tripId].route_id : st \in {x \in Range(stopTimes) : x.stopId = stopId}}

\* The key for shapeHints: trip.direction_id + trip.route_id
HintKey(direction_id, route_id) == <<direction_id, route_id>>

RECURSIVE HintFold(_, _, _)
\* The loop of extractShapeHints over the trips: the longest shape wins, the first of
\* equally long ones.
HintFold(trips, shapes, hints) ==
  IF Len(trips) = 0 THEN hints
  ELSE LET trip == Head(trips)
           k == HintKey(trip.direction_id, trip.route_id)
           len(id) == Cardinality({i \in 1..Len(shapes) : shapes[i].shape_id = id})
       IN IF trip.shape_id = Null THEN HintFold(Tail(trips), shapes, hints)
          ELSE IF hints[k] # Null /\ len(hints[k]) >= len(trip.shape_id)
               THEN HintFold(Tail(trips), shapes, hints)
          ELSE HintFold(Tail(trips), shapes, [hints EXCEPT ![k] = trip.shape_id])

\* extractShapeHints(trips, shapes, options), no shape_hints being configured.
extractShapeHints(trips, shapes) ==
  HintFold(trips, shapes, [k \in {0, 1} \X RouteIds |-> Null])

shapeHints == extractShapeHints(RawTrips, RawShapes)

----------------------------------------------------------------------------
(* Options.  The numeric defaults are small stand-ins for the source's       *)
(* 1.5 km and 5.1 km/h, chosen so that every walking time is an integer.    *)

OptionKeys ==
  { "max_walking_distance_km", "walking_speed_kph", "max_waiting_time_secs",
    "transfer_penalty_secs", "max_number_of_transfers", "max_commute_time_secs",
    "bus_multiplier", "rail_multiplier", "exclude_routes", "exclude_stops",
    "max_allowable_between_stop_walk_km", "max_allowable_walking_distance_km",
    "max_allowable_number_of_transfers" }

\* {}: every key undefined.
NoOptions == [k \in OptionKeys |-> <<>>]

\* An options object with the key set to the value.
With(o, k, v) == [o EXCEPT ![k] = <<v>>]

\* _.extend({}, a, b): the keys of b win.
Extend(a, b) == [k \in OptionKeys |-> IF Len(b[k]) = 1 THEN b[k] ELSE a[k]]

defaultLoadingOptions ==
  [NoOptions EXCEPT
     !["max_allowable_between_stop_walk_km"] = <<1>>,
     !["max_allowable_walking_distance_km"] = <<Infinity>>,
     !["max_allowable_number_of_transfers"] = <<Infinity>>]

defaults ==
  [NoOptions EXCEPT
     !["max_walking_distance_km"] = <<1>>,
     !["walking_speed_kph"] = <<3600>>,
     !["max_waiting_time_secs"] = <<1800>>,
     !["transfer_penalty_secs"] = <<30>>,
     !["max_number_of_transfers"] = <<1>>,
     !["max_commute_time_secs"] = <<Infinity>>,
     !["bus_multiplier"] = <<1>>,
     !["rail_multiplier"] = <<1>>,
     !["exclude_routes"] = << <<>> >>]

----------------------------------------------------------------------------
(* Walking transfers *)

WalkKm(to, km) == [stopId |-> to, km |-> <<km>>, secs |-> <<>>]
WalkSecs(to, secs) == [stopId |-> to, km |-> <<>>, secs |-> <<secs>>]

\* distanceKm(a, b): the haversine distance of two stops of the line.
distanceKm(a, b) == Abs(a.stopLng - b.stopLng)

\* The entries pushed for one origin, out of a list of pushes [from, t] in push order.
PushedFor(pushes, origin) ==
  LET mine == Select(pushes, LAMBDA p : p.from = origin)
  IN [i \in 1..Len(mine) |-> mine[i].t]

\* The loop over transfers.txt pushing for the named stops only.
MinTimePushesNamed(stops, transfers) ==
  FlatMap(transfers, LAMBDA tr :
    IF tr.type # "MIN_TIME" \/ tr.fromStopId = tr.toStopId THEN <<>>
    ELSE << [from |-> tr.fromStopId, t |-> WalkSecs(tr.toStopId, tr.minTransferTime)] >>)

\* The pushes of the loop over transfers.txt, children included.
MinTimePushes(stops, transfers) ==
  FlatMap(transfers, LAMBDA tr :
    IF tr.type # "MIN_TIME" THEN <<>>
    ELSE FlatMap(<<tr.fromStopId>> \o indexParents(stops, tr.fromStopId), LAMBDA childFrom :
           FlatMap(<<tr.toStopId>> \o indexParents(stops, tr.toStopId), LAMBDA childTo :
             IF childFrom = childTo THEN <<>>
             ELSE << [from |-> childFrom, t |-> WalkSecs(childTo, tr.minTransferTime)] >>)))

\* The pushes of the loop over the parent stations: free transfers inside a station.
ParentPushes(stops) ==
  FlatMap(ParentOrder(stops), LAMBDA parentId :
    LET childIds == indexParents(stops, parentId)
    IN FlatMap([i \in 1..Len(childIds) |-> i], LAMBDA i :
         << [from |-> parentId, t |-> WalkSecs(childIds[i], 0)],
            [from |-> childIds[i], t |-> WalkSecs(parentId, 0)] >>
         \o FlatMap(SubSeq(childIds, i + 1, Len(childIds)), LAMBDA to :
              << [from |-> childIds[i], t |-> WalkSecs(to, 0)],
                 [from |-> to, t |-> WalkSecs(childIds[i], 0)] >>)))

\* getExplicitTransfers(stops, transfers)[origin]
getExplicitTransfers(stops, transfers, origin) ==
  LET Sorted(uniq) ==
        SortBy(uniq, [i \in 1..Len(uniq) |->
                        uniq[i].secs[1] * (Len(IdOrder) + 1) + IdRank(uniq[i].stopId)])
  IN Sorted(UniqByStopId(PushedFor(MinTimePushes(stops, transfers)
                                   \o ParentPushes(stops), origin)))

\* this.attributes of a feed that was loaded from one directory.
Attributes(name, transfers) == (name :> [hasTransfers |-> Len(transfers) > 0])

\* aFeed in this.attributes && this.attributes[aFeed].hasTransfers
hasTransfers(attributes, feedName) ==
  feedName \in DOMAIN attributes /\ attributes[feedName].hasTransfers

\* findNearbyStops(options)[origin], for a served origin.
findNearbyStops(stops, attributes, options, origin) ==
  LET pair(a, b, maxDistanceKm) ==
        IF a.feed = b.feed /\ hasTransfers(attributes, a.feed) THEN <<>>
        ELSE IF JsLe(distanceKm(a, b), maxDistanceKm)
                /\ ~ waterFilter(a.stopLng, b.stopLng)
          THEN IF indexRoutesByStop(RawStopTimes, a.stopId)
                    = indexRoutesByStop(RawStopTimes, b.stopId)
               THEN <<>>
               ELSE << [from |-> a.stopId, t |-> WalkKm(b.stopId, distanceKm(a, b))],
                       [from |-> b.stopId, t |-> WalkKm(a.stopId, distanceKm(a, b))] >>
        ELSE <<>>
      pushes(servedStops, maxDistanceKm) ==
        FlatMap([i \in 1..Len(servedStops) |-> i], LAMBDA i :
          FlatMap([d \in 1..(Len(servedStops) - i) |-> i + d], LAMBDA j :
            pair(servedStops[i], servedStops[j], maxDistanceKm)))
      Sorted(mine) == SortBy(mine, [i \in 1..Len(mine) |-> mine[i].km[1]])
  IN Sorted(PushedFor(
       pushes(Select(stops, LAMBDA s : s.stopId \in DOMAIN stopIdToStopTimes),
              options["max_allowable_between_stop_walk_km"][1]),
       origin))

\* computeTransfers(feed, options)[origin]: the explicit list, then the nearby stops.
computeTransfers(stops, transfers, attributes, options, origin) ==
  getExplicitTransfers(stops, transfers, origin)
  \o (IF origin \in DOMAIN stopIdToStopTimes
      THEN findNearbyStops(stops, attributes, options, origin) ELSE <<>>)

----------------------------------------------------------------------------
(* The heap of shared objects.  A feed object holds addresses; clone() copies *)
(* the addresses, so that a write through one feed is seen by every feed that *)
(* holds the same address.                                                   *)

\* A new object: its address is the next free one.
Alloc(h, v) == Append(h, v)
NewAddr(h) == Len(h) + 1

----------------------------------------------------------------------------
(* Locations and the spatial index (an R-tree of points, kept as the list   *)
(* of its points)                                                          *)

Location(id, lng) == [id |-> id, latitude |-> 0, longitude |-> lng]

\* SpatialIndex.search(point, radiusKm) on the points of a tree: the points in
\* the bounding box, then those not farther than the radius, with their distance.
search(tree, point, radiusKm) ==
  LET inBox(loc) ==
        /\ radiusKm # NaN
        /\ \/ radiusKm = Infinity
           \/ /\ point.longitude - radiusKm <= loc.longitude
              /\ loc.longitude <= point.longitude + radiusKm
      radiusKm2 == IF radiusKm = NaN \/ radiusKm = Infinity THEN radiusKm
                   ELSE radiusKm * radiusKm
      d2(loc) == (loc.longitude - point.longitude) * (loc.longitude - point.longitude)
      found == Select(tree, LAMBDA loc : inBox(loc) /\ ~ JsGt(d2(loc), radiusKm2))
  IN [i \in 1..Len(found) |->
        [id |-> found[i].id, km |-> Abs(found[i].longitude - point.longitude)]]

\* SpatialIndex.intersect(other, radiusKm): links[location.id] for every point of this
\* tree, as the list of [id, links] in key order.
intersect(tree, other, radiusKm) ==
  LET firsts == Filter(tree, [i \in 1..Len(tree) |->
                        ~ \E j \in 1..(i - 1) : tree[j].id = tree[i].id])
      last(id) == tree[CHOOSE i \in 1..Len(tree) :
                         tree[i].id = id /\ \A j \in (i + 1)..Len(tree) : tree[j].id # id]
  IN [i \in 1..Len(firsts) |->
        [id |-> firsts[i].id, links |-> search(other, last(firsts[i].id), radiusKm)]]

stopToIndexLocation(stop) == Location(stop.stopId, stop.stopLng)

----------------------------------------------------------------------------
(* IndexedGTFS *)

\* new IndexedGTFS(feed, options): the feed object and the heap holding its parts.
NewIndexedGTFS(options) ==
  LET \* the keys of the transfer map: every stop, in the order of stops
      StopIdsOf(keyed) == [i \in 1..Len(keyed) |-> keyed[i].stopId]
      \* addresses 1..3: stops, stopIdToStop, stopIndex; 4: shapeIdToShapes and its
      \* arrays; then walkingTransfers and its arrays.
      Indexed(stops, stopSeq, shapeSeq) ==
        [feed |-> [stops |-> 1, stopIdToStop |-> 2, stopIndex |-> 3,
                   shapeIdToShapes |-> 4, walkingTransfers |-> 4 + Len(shapeSeq) + 1],
         heap |->
           << stops,
              [id \in StopIds |-> CHOOSE s \in Range(stops) : s.stopId = id],
              [i \in 1..Len(stops) |-> stopToIndexLocation(stops[i])],
              [id \in Range(shapeSeq) |->
                 4 + (CHOOSE i \in 1..Len(shapeSeq) : shapeSeq[i] = id)] >>
           \o [i \in 1..Len(shapeSeq) |-> indexShapes(RawShapes, shapeSeq[i])]
           \o << [id \in Range(stopSeq) |->
                    4 + Len(shapeSeq) + 1
                    + (CHOOSE i \in 1..Len(stopSeq) : stopSeq[i] = id)] >>
           \o [i \in 1..Len(stopSeq) |->
                 computeTransfers(stops, RawTransfers,
                                  Attributes(FeedName, RawTransfers), options,
                                  stopSeq[i])]]
  IN Indexed(RawStops, StopIdsOf(RawStops), <<"shR", "shB">>)

\* clone(): a shallow copy, every field holding the same object.
clone(feed) == feed

\* What a feed holds, read through the heap.
Contents(h, feed) ==
  [stops |-> h[feed.stops],
   stopIdToStop |-> h[feed.stopIdToStop],
   stopIndex |-> h[feed.stopIndex],
   shapeIdToShapes |-> [id \in DOMAIN h[feed.shapeIdToShapes] |->
                           h[h[feed.shapeIdToShapes][id]]],
   walkingTransfers |-> [id \in DOMAIN h[feed.walkingTransfers] |->
                            h[h[feed.walkingTransfers][id]]]]

\* addTransfer pushing the edge onto the list that the map holds.
addTransferPush(h, transfers, from, to, km) ==
  LET m == h[transfers]
      h1 == Alloc(h, <<WalkKm(to, km)>>)
  IN IF from \in DOMAIN m THEN [h EXCEPT ![m[from]] = Append(@, WalkKm(to, km))]
     ELSE [h1 EXCEPT ![transfers] = (from :> Len(h1)) @@ m]

\* addTransfer(from, to, km) of augmentWithLocations: the list of `from` is replaced
\* in the cloned map by a new, longer list.
addTransfer(h, transfers, from, to, km) ==
  LET m == h[transfers]
      old == IF from \in DOMAIN m THEN h[m[from]] ELSE <<>>
      h1 == Alloc(h, old \o <<WalkKm(to, km)>>)
  IN [h1 EXCEPT ![transfers] = (from :> Len(h1)) @@ m]

RECURSIVE AddTransfers(_, _, _)
\* The calls of addTransfer, in order.
AddTransfers(h, transfers, calls) ==
  IF Len(calls) = 0 THEN h
  ELSE AddTransfers(addTransfer(h, transfers, Head(calls).from, Head(calls).to,
                                Head(calls).km),
                    transfers, Tail(calls))

\* _.clone(feed.walkingTransfers): a new map holding the same lists.
cloneTransferMap(h, feed) == Alloc(h, h[feed.walkingTransfers])

\* this.stopIndex.clone(): a new tree holding copies of the points.
cloneStopIndex(h, feed) == Alloc(h, h[feed.stopIndex])

\* augmentWithLocations without the id collision check.
dupeIdsUnchecked(h, feed, locations) == {}

\* The id collision check at the head of augmentWithLocations.
dupeIds(h, feed, locations) ==
  DOMAIN h[feed.stopIdToStop] \cap {locations[i].id : i \in 1..Len(locations)}

\* const newStops = locations.map(...)
newStops(locations) ==
  [i \in 1..Len(locations) |->
     [stopId |-> locations[i].id, stopLat |-> locations[i].latitude,
      stopLng |-> locations[i].longitude, parentStation |-> Null, feed |-> Null]]

\* feed.stopIdToStop = _.clone(feed.stopIdToStop), then feed.stopIdToStop[stop.stopId] =
\* stop for the new stops in order.
augmentStopMap(oldMap, stops) ==
  LET newIds == {stops[i].stopId : i \in 1..Len(stops)}
      lastNew(id) == stops[CHOOSE i \in 1..Len(stops) :
                       /\ stops[i].stopId = id
                       /\ \A j \in (i + 1)..Len(stops) : stops[j].stopId # id]
  IN [id \in DOMAIN oldMap \cup newIds |->
        IF id \in newIds THEN lastNew(id) ELSE oldMap[id]]

\* The calls of addTransfer, in order: the walks from the origin to stops and from stops
\* to destinations, then the walks between the origin and the destinations.
augmentTransferCalls(stopIndex, stopMap, origin, locations, radius) ==
  LET isOrigin(id) == Len(origin) = 1 /\ id = origin[1].id
  IN FlatMap(intersect(locations, stopIndex, radius), LAMBDA e :
       FlatMap(e.links, LAMBDA link :
         IF waterFilter(stopMap[e.id].stopLng, stopMap[link.id].stopLng) THEN <<>>
         ELSE IF isOrigin(e.id)
           THEN << [from |-> e.id, to |-> link.id, km |-> link.km] >>
           ELSE << [from |-> link.id, to |-> e.id, km |-> link.km] >>))
     \o (IF Len(origin) = 0 THEN <<>>
         ELSE FlatMap(search(locations, origin[1], radius), LAMBDA link :
                IF link.id = origin[1].id THEN <<>>
                ELSE IF waterFilter(origin[1].longitude, stopMap[link.id].stopLng)
                THEN <<>>
                ELSE << [from |-> origin[1].id, to |-> link.id, km |-> link.km] >>))

\* augmentWithLocations(origin, destinations, options) on the feed `this`; origin is
\* <<>> for null.  Gives [error, feed, heap].
augmentWithLocations(h, this, origin, destinations, options) ==
  LET \* The new objects are allocated in the order of the code: the stops, the stop
      \* map, the transfer map, the arrays of addTransfer, the stop index.
      stopsAt == Len(h) + 1
      mapAt == Len(h) + 2
      transfersAt == Len(h) + 3
      Indexed(locations, h4) ==
        [error |-> FALSE,
         feed |-> [clone(this) EXCEPT !.stops = stopsAt, !.stopIdToStop = mapAt,
                                      !.walkingTransfers = transfersAt,
                                      !.stopIndex = Len(h4) + 1],
         \* feed.stopIndex = this.stopIndex.clone(); feed.stopIndex.add(locations)
         heap |-> [cloneStopIndex(h4, this) EXCEPT ![Len(h4) + 1] = @ \o locations]]
      Linked(locations, stopMap) ==
        Indexed(locations,
                AddTransfers(
                  cloneTransferMap(
                    Alloc(Alloc(h, h[this.stops] \o newStops(locations)), stopMap),
                    this),
                  transfersAt,
                  augmentTransferCalls(h[this.stopIndex], stopMap, origin, locations,
                                       Num(options["max_walking_distance_km"]))))
      Augmented(locations) ==
        IF dupeIds(h, this, locations) # {}
        THEN [error |-> TRUE, feed |-> this, heap |-> h]
        ELSE Linked(locations,
                    augmentStopMap(h[this.stopIdToStop], newStops(locations)))
  IN Augmented(destinations \o origin)

----------------------------------------------------------------------------
(* The reachability matrix.  tau[k] of the code is st.tau[k + 1] here; a     *)
(* ReachMap is the list of its keys in insertion order and, for each key,   *)
(* the address in st.objs of the ReachInfo object it holds.                 *)

EmptyReachMap == [keys |-> <<>>, ref |-> <<>>]

\* tau[k]
Round(st, k) == st.tau[k + 1]

\* tau[k][stopId] is defined
Has(st, k, stopId) == stopId \in DOMAIN Round(st, k).ref

\* tau[k][stopId]
Reach(st, k, stopId) == st.objs[Round(st, k).ref[stopId]]

\* addConnection letting a candidate of equal cost replace the stored entry.
addConnectionLastWins(st, k, destinationStopId, timeOfDaySec, cost, previousStopId, mode, tripId, prevK) ==
  LET destinations == Round(st, k)
      absent == destinationStopId \notin DOMAIN destinations.ref
      info == [timeOfDaySec |-> timeOfDaySec, cost |-> cost,
               previousStopId |-> previousStopId, mode |-> mode, tripId |-> tripId,
               isUnexplored |-> TRUE, prevK |-> <<prevK>>]
      objs1 == Append(st.objs, info)
      map1 == [keys |-> IF absent THEN Append(destinations.keys, destinationStopId)
                        ELSE destinations.keys,
               ref |-> (destinationStopId :> Len(objs1)) @@ destinations.ref]
  IN IF absent \/ JsGe(st.objs[destinations.ref[destinationStopId]].cost, cost)
     THEN [st EXCEPT !.objs = objs1, !.tau[k + 1] = map1]
     ELSE st

\* addConnection(tau[k], ...): the entry is replaced by a new object only if there is
\* none or the stored one costs strictly more.
addConnection(st, k, destinationStopId, timeOfDaySec, cost, previousStopId, mode, tripId, prevK) ==
  LET destinations == Round(st, k)
      absent == destinationStopId \notin DOMAIN destinations.ref
      info == [timeOfDaySec |-> timeOfDaySec, cost |-> cost,
               previousStopId |-> previousStopId, mode |-> mode, tripId |-> tripId,
               isUnexplored |-> TRUE, prevK |-> <<prevK>>]
      objs1 == Append(st.objs, info)
      map1 == [keys |-> IF absent THEN Append(destinations.keys, destinationStopId)
                        ELSE destinations.keys,
               ref |-> (destinationStopId :> Len(objs1)) @@ destinations.ref]
  IN IF absent \/ JsGt(st.objs[destinations.ref[destinationStopId]].cost, cost)
     THEN [st EXCEPT !.objs = objs1, !.tau[k + 1] = map1]
     ELSE st

RECURSIVE AddConnectionsWithinTheRound(_, _, _)
\* AddConnections pointing every entry back into the round it is written to.
AddConnectionsWithinTheRound(st, k, calls) ==
  IF Len(calls) = 0 THEN st
  ELSE AddConnectionsWithinTheRound(
         addConnection(st, k, Head(calls).to, Head(calls).timeOfDaySec, Head(calls).cost,
                       Head(calls).from, Head(calls).mode, Head(calls).tripId, k),
         k, Tail(calls))

RECURSIVE AddConnections(_, _, _)
\* A list of addConnection calls into tau[k], in order.
AddConnections(st, k, calls) ==
  IF Len(calls) = 0 THEN st
  ELSE LET c == Head(calls)
       IN AddConnections(
            addConnection(st, k, c.to, c.timeOfDaySec, c.cost, c.from, c.mode,
                          c.tripId, k - 1),
            k, Tail(calls))

\* addTransitConnection recording the time of boarding as the time of arrival.
addTransitConnectionAtBoarding(st, k, time, from, to, costMultiplier) ==
  LET waitTime == from.timeOfDaySec - time
      travelTime == to.timeOfDaySec - from.timeOfDaySec
      thisCost == waitTime + costMultiplier * travelTime
      totalCost == Reach(st, k - 1, from.stopId).cost + thisCost
  IN [to |-> to.stopId, timeOfDaySec |-> from.timeOfDaySec, cost |-> totalCost,
      from |-> from.stopId, mode |-> "Transit", tripId |-> to.tripId]

\* addTransitConnection charging the ride only, the wait at the stop being forgotten.
addTransitConnectionNoWait(st, k, time, from, to, costMultiplier) ==
  LET travelTime == to.timeOfDaySec - from.timeOfDaySec
      totalCost == Reach(st, k - 1, from.stopId).cost + costMultiplier * travelTime
  IN [to |-> to.stopId, timeOfDaySec |-> to.timeOfDaySec, cost |-> totalCost,
      from |-> from.stopId, mode |-> "Transit", tripId |-> to.tripId]

\* addTransitConnection(tau, k, time, from, to, costMultiplier), as the call it makes.
addTransitConnection(st, k, time, from, to, costMultiplier) ==
  LET waitTime == from.timeOfDaySec - time
      travelTime == to.timeOfDaySec - from.timeOfDaySec
      thisCost == waitTime + costMultiplier * travelTime
      totalCost == Reach(st, k - 1, from.stopId).cost + thisCost
  IN [to |-> to.stopId, timeOfDaySec |-> to.timeOfDaySec, cost |-> totalCost,
      from |-> from.stopId, mode |-> "Transit", tripId |-> to.tripId]

\* getUnexploredStops(tau[k]): the marked stops, cheapest first.
getUnexploredStops(st, k) ==
  LET stopIds == Select(Round(st, k).keys, LAMBDA id : Reach(st, k, id).isUnexplored)
  IN SortBy(stopIds, [i \in 1..Len(stopIds) |-> Reach(st, k, stopIds[i]).cost])

\* isTripExcluded with no route ever switched off.
isTripNeverExcluded(trip, options) == FALSE

isTripExcluded(trip, options) ==
  /\ Len(options["exclude_routes"]) = 1
  /\ Includes(options["exclude_routes"][1], trip.route_id)

\* isStopExcluded with no stop ever closed.
isStopNeverExcluded(stopId, options) == FALSE

isStopExcluded(stopId, options) ==
  /\ Len(options["exclude_stops"]) = 1
  /\ Len(options["exclude_stops"][1]) # 0
  /\ Includes(options["exclude_stops"][1], stopId)

getCostMultiplier(trip, options) ==
  LET route == routeIdToRoute[trip.route_id]
      isBus == route.route_type = "Bus"
  IN IF isBus THEN options["bus_multiplier"][1] ELSE options["rail_multiplier"][1]

\* copyTimes(tau[k]): a new map that holds the marked ReachInfo objects themselves.
copyTimes(st, k) ==
  LET m == Round(st, k)
      kept == Select(m.keys, LAMBDA id : Reach(st, k, id).isUnexplored)
  IN [keys |-> kept, ref |-> [id \in Range(kept) |-> m.ref[id]]]

\* _.sortedIndexBy(stopTimes, {stopSequence}, 'stopSequence'), 0-based.
sortedIndexBy(stopTimes, stopSequence) ==
  Cardinality({i \in 1..Len(stopTimes) : stopTimes[i].stopSequence < stopSequence})

\* findStopTimeInSequence(stopTimes, stopSequence), 0-based.
findStopTimeInSequence(stopTimes, stopSequence) ==
  IF /\ stopSequence >= 1
     /\ stopSequence <= Len(stopTimes)
     /\ stopTimes[stopSequence].stopSequence = stopSequence
  THEN stopSequence - 1
  ELSE sortedIndexBy(stopTimes, stopSequence)

RECURSIVE RideFromAtAnyTime(_, _, _, _, _, _, _, _)
\* RideFrom with no last valid time.
RideFromAtAnyTime(st, k, time, stopTime, allStopTimes, i, multiplier, env) ==
  IF i >= Len(allStopTimes) THEN <<>>
  ELSE IF isStopExcluded(allStopTimes[i + 1].stopId, env.options) THEN <<>>
  ELSE << addTransitConnection(st, k, time, stopTime, allStopTimes[i + 1], multiplier) >>
       \o RideFromAtAnyTime(st, k, time, stopTime, allStopTimes, i + 1, multiplier, env)

RECURSIVE RideFrom(_, _, _, _, _, _, _, _)
\* The loop over the later stop-times of a boarded trip, from 0-based index i: it
\* stops at the first one past the last valid time or at an excluded stop.
RideFrom(st, k, time, stopTime, allStopTimes, i, multiplier, env) ==
  IF i >= Len(allStopTimes) THEN <<>>
  ELSE LET thisStopTime == allStopTimes[i + 1]
       IN IF JsGt(thisStopTime.timeOfDaySec, env.lastValidTimeSecs) THEN <<>>
          ELSE IF isStopExcluded(thisStopTime.stopId, env.options) THEN <<>>
          ELSE << addTransitConnection(st, k, time, stopTime, thisStopTime, multiplier) >>
               \o RideFrom(st, k, time, stopTime, allStopTimes, i + 1, multiplier, env)

\* Unmark the entries of tau[k] for these stops.
Unmark(st, k, stopIds) ==
  LET addrs == {Round(st, k).ref[id] : id \in Range(stopIds)}
  IN [st EXCEPT !.objs = [a \in 1..Len(st.objs) |->
                            IF a \in addrs THEN [st.objs[a] EXCEPT !.isUnexplored = FALSE]
                            ELSE st.objs[a]]]

\* takeVehicles(tau, k, feed, options, lastValidTimeSecs)
\* takeVehicles boarding whatever calls at the stop, whenever it leaves.
takeVehiclesWhenever(st, k, options, lastValidTimeSecs) ==
  LET stopIds == getUnexploredStops(st, k - 1)
      env == [options |-> options, lastValidTimeSecs |-> lastValidTimeSecs]
      board(stopId) ==
        LET reach == Reach(st, k - 1, stopId)
            time == reach.timeOfDaySec
            latest == JsAdd(time, options["max_waiting_time_secs"][1])
            stopTimes ==
              Select(IF stopId \in DOMAIN stopIdToStopTimes
                       THEN stopIdToStopTimes[stopId] ELSE <<>>,
                     LAMBDA s : TRUE)
        IN FlatMap(stopTimes, LAMBDA stopTime :
             LET trip == tripIdToTrip[stopTime.tripId]
                 multiplier == getCostMultiplier(trip, options)
                 allStopTimes == tripIdToStopTime[stopTime.tripId]
                 idx == findStopTimeInSequence(allStopTimes, stopTime.stopSequence)
             IN IF JsGt(stopTime.timeOfDaySec, lastValidTimeSecs) THEN <<>>
                ELSE IF isTripExcluded(trip, options) THEN <<>>
                ELSE IF JsLt(multiplier, 0) THEN <<>>
                ELSE RideFrom(st, k, time, stopTime, allStopTimes, idx + 1,
                              multiplier, env))
  IN Unmark(AddConnections(st, k, FlatMap(stopIds, board)), k - 1, stopIds)

takeVehicles(st, k, options, lastValidTimeSecs) ==
  LET stopIds == getUnexploredStops(st, k - 1)
      env == [options |-> options, lastValidTimeSecs |-> lastValidTimeSecs]
      board(stopId) ==
        LET reach == Reach(st, k - 1, stopId)
            time == reach.timeOfDaySec
            latest == JsAdd(time, options["max_waiting_time_secs"][1])
            stopTimes ==
              Select(IF stopId \in DOMAIN stopIdToStopTimes
                       THEN stopIdToStopTimes[stopId] ELSE <<>>,
                     LAMBDA s : JsGe(s.timeOfDaySec, time) /\ JsLe(s.timeOfDaySec, latest))
        IN FlatMap(stopTimes, LAMBDA stopTime :
             LET trip == tripIdToTrip[stopTime.tripId]
                 multiplier == getCostMultiplier(trip, options)
                 allStopTimes == tripIdToStopTime[stopTime.tripId]
                 idx == findStopTimeInSequence(allStopTimes, stopTime.stopSequence)
             IN IF JsGt(stopTime.timeOfDaySec, lastValidTimeSecs) THEN <<>>
                ELSE IF isTripExcluded(trip, options) THEN <<>>
                ELSE IF JsLt(multiplier, 0) THEN <<>>
                ELSE RideFrom(st, k, time, stopTime, allStopTimes, idx + 1,
                              multiplier, env))
  IN Unmark(AddConnections(st, k, FlatMap(stopIds, board)), k - 1, stopIds)

\* makeTransfers walking every edge of the map, however long.
makeTransfersAnyLength(st, k, h, feed, options, lastValidTimeSecs) ==
  LET stopIds == getUnexploredStops(st, k - 1)
      secsPerKm == 3600 \div options["walking_speed_kph"][1]
      transfers == h[feed.walkingTransfers]
      walk(stopId) ==
        LET reach == Reach(st, k - 1, stopId)
            list == IF stopId \in DOMAIN transfers THEN h[transfers[stopId]] ELSE <<>>
        IN IF reach.mode = "Walk" THEN <<>>
           ELSE FlatMap(list, LAMBDA transfer :
             LET secs == IF Len(transfer.secs) = 1 THEN transfer.secs[1]
                         ELSE transfer.km[1] * secsPerKm
                 arrivalTime == JsAdd(reach.timeOfDaySec, secs)
             IN IF isStopExcluded(transfer.stopId, options) THEN <<>>
                ELSE IF JsGt(arrivalTime, lastValidTimeSecs) THEN <<>>
                ELSE << [to |-> transfer.stopId, timeOfDaySec |-> arrivalTime,
                         cost |-> reach.cost + secs, from |-> stopId, mode |-> "Walk",
                         tripId |-> Null] >>)
  IN AddConnections(st, k, FlatMap(stopIds, walk))

\* makeTransfers(tau, k, transfers, options, lastValidTimeSecs); the marks of tau[k - 1]
\* are left as they are.
\* makeTransfers walking on from the stops it has just reached on foot.
makeTransfersOnward(st, k, h, feed, options, lastValidTimeSecs) ==
  LET secsPerKm == 3600 \div options["walking_speed_kph"][1]
      transfers == h[feed.walkingTransfers]
      walk(s, fromK, stopId) ==
        LET reach == Reach(s, fromK, stopId)
            list == IF stopId \in DOMAIN transfers THEN h[transfers[stopId]] ELSE <<>>
        IN FlatMap(list, LAMBDA transfer :
             LET secs == IF Len(transfer.secs) = 1 THEN transfer.secs[1]
                         ELSE transfer.km[1] * secsPerKm
                 arrivalTime == JsAdd(reach.timeOfDaySec, secs)
             IN IF /\ Truthy(transfer.km)
                   /\ JsGt(transfer.km[1], options["max_walking_distance_km"][1])
                THEN <<>>
                ELSE IF isStopExcluded(transfer.stopId, options) THEN <<>>
                ELSE IF JsGt(arrivalTime, lastValidTimeSecs) THEN <<>>
                ELSE << [to |-> transfer.stopId, timeOfDaySec |-> arrivalTime,
                         cost |-> reach.cost + secs, from |-> stopId, mode |-> "Walk",
                         tripId |-> Null] >>)
      RECURSIVE Add(_, _, _)
      Add(s, calls, prevK) ==
        IF Len(calls) = 0 THEN s
        ELSE Add(addConnection(s, k, Head(calls).to, Head(calls).timeOfDaySec,
                               Head(calls).cost, Head(calls).from, Head(calls).mode,
                               Head(calls).tripId, prevK),
                 Tail(calls), prevK)
      Onward(s) ==
        Add(s, FlatMap(Select(Round(s, k).keys,
                              LAMBDA id : Reach(s, k, id).mode = "Walk"),
                       LAMBDA id : walk(s, k, id)), k)
  IN Onward(Add(st, FlatMap(getUnexploredStops(st, k - 1),
                            LAMBDA id : walk(st, k - 1, id)), k - 1))

makeTransfers(st, k, h, feed, options, lastValidTimeSecs) ==
  LET stopIds == getUnexploredStops(st, k - 1)
      secsPerKm == 3600 \div options["walking_speed_kph"][1]
      transfers == h[feed.walkingTransfers]
      walk(stopId) ==
        LET reach == Reach(st, k - 1, stopId)
            time == reach.timeOfDaySec
            list == IF stopId \in DOMAIN transfers THEN h[transfers[stopId]] ELSE <<>>
        IN IF reach.mode = "Walk" THEN <<>>
           ELSE FlatMap(list, LAMBDA transfer :
             LET secs == IF Len(transfer.secs) = 1 THEN transfer.secs[1]
                         ELSE transfer.km[1] * secsPerKm
                 arrivalTime == JsAdd(time, secs)
             IN IF /\ Truthy(transfer.km)
                   /\ JsGt(transfer.km[1], options["max_walking_distance_km"][1])
                THEN <<>>
                ELSE IF isStopExcluded(transfer.stopId, options) THEN <<>>
                ELSE IF JsGt(arrivalTime, lastValidTimeSecs) THEN <<>>
                ELSE << [to |-> transfer.stopId, timeOfDaySec |-> arrivalTime,
                         cost |-> reach.cost + secs, from |-> stopId, mode |-> "Walk",
                         tripId |-> Null] >>)
  IN AddConnections(st, k, FlatMap(stopIds, walk))

----------------------------------------------------------------------------
(* raptor(), one round at a time.  `at` is the position in the function:    *)
(* "initialWalk", "takeVehicles", "makeTransfers", "clear" or "done".       *)

\* The loop running one time less: i <= maxTransfers.
loopContinuesOneLess(i, maxTransfers) == JsLe(i, maxTransfers)

\* The loop condition i <= 1 + maxTransfers.
loopContinues(i, maxTransfers) == JsLe(i, JsAdd(1, maxTransfers))

\* The head of raptor(): tau[0] holds the origin; the first round is a walk if the
\* origin has no stop-times.
raptorInit(stopId, timeOfDaySec, options) ==
  LET maxTransfers == IF Len(options["max_number_of_transfers"]) = 0 THEN 1
                      ELSE options["max_number_of_transfers"][1]
      origin == [timeOfDaySec |-> timeOfDaySec, cost |-> 0, previousStopId |-> Null,
                 mode |-> "Origin", tripId |-> Null, isUnexplored |-> TRUE,
                 prevK |-> <<>>]
  IN [tau |-> << [keys |-> <<stopId>>, ref |-> (stopId :> 1)] >>,
      objs |-> <<origin>>,
      k |-> 1,
      i |-> 1,
      maxTransfers |-> maxTransfers,
      lastValidTimeSecs |-> JsAdd(timeOfDaySec, Num(options["max_commute_time_secs"])),
      stopId |-> stopId,
      timeOfDaySec |-> timeOfDaySec,
      rounds |-> <<>>,
      at |-> IF stopId \notin DOMAIN stopIdToStopTimes THEN "initialWalk"
             ELSE IF loopContinues(1, maxTransfers) THEN "takeVehicles" ELSE "clear"]

\* tau[k] = {}; makeTransfers(tau, k, ...); k++
stepInitialWalk(st, h, feed, options) ==
  LET st1 == [st EXCEPT !.tau = Append(@, EmptyReachMap)]
      st2 == makeTransfers(st1, st.k, h, feed, options, st.lastValidTimeSecs)
  IN [st2 EXCEPT !.k = st.k + 1,
                 !.rounds = Append(@, [kind |-> "walk", k |-> st.k]),
                 !.at = IF loopContinues(st.i, st.maxTransfers) THEN "takeVehicles"
                        ELSE "clear"]

\* tau[k] = {}; takeVehicles(tau, k, ...)
stepTakeVehicles(st, options) ==
  LET st1 == [st EXCEPT !.tau = Append(@, EmptyReachMap)]
      st2 == takeVehicles(st1, st.k, options, st.lastValidTimeSecs)
  IN [st2 EXCEPT !.rounds = Append(@, [kind |-> "board", k |-> st.k]),
                 !.at = "makeTransfers"]

\* tau[k + 1] = copyTimes(tau[k]); makeTransfers(tau, k + 1, ...); k += 2; i++
stepMakeTransfers(st, h, feed, options) ==
  LET st1 == [st EXCEPT !.tau = Append(@, copyTimes(st, st.k))]
      st2 == makeTransfers(st1, st.k + 1, h, feed, options, st.lastValidTimeSecs)
  IN [st2 EXCEPT !.k = st.k + 2,
                 !.i = st.i + 1,
                 !.rounds = Append(@, [kind |-> "walk", k |-> st.k + 1]),
                 !.at = IF loopContinues(st.i + 1, st.maxTransfers) THEN "takeVehicles"
                        ELSE "clear"]

\* Clear the marks of tau[k - 1] and return.
stepClear(st) ==
  [Unmark(st, st.k - 1, Round(st, st.k - 1).keys) EXCEPT !.at = "done"]

raptorStep(st, h, feed, options) ==
  CASE st.at = "initialWalk" -> stepInitialWalk(st, h, feed, options)
    [] st.at = "takeVehicles" -> stepTakeVehicles(st, options)
    [] st.at = "makeTransfers" -> stepMakeTransfers(st, h, feed, options)
    [] st.at = "clear" -> stepClear(st)
    [] OTHER -> st

RECURSIVE raptorFrom(_, _, _, _)
raptorFrom(st, h, feed, options) ==
  IF st.at = "done" THEN st
  ELSE raptorFrom(raptorStep(st, h, feed, options), h, feed, options)

\* raptor(stopId, timeOfDaySec, feed, options)
raptor(stopId, timeOfDaySec, h, feed, options) ==
  raptorFrom(raptorInit(stopId, timeOfDaySec, options), h, feed, options)

----------------------------------------------------------------------------
(* Reading the matrix *)

RECURSIVE numVehicles(_, _, _)
\* The Transit entries on the back-pointer chain from tau[k][id] to the origin.
numVehicles(st, k, id) ==
  LET reach == Reach(st, k, id)
  IN IF reach.mode = "Origin" THEN 0
     ELSE (IF reach.mode = "Transit" THEN 1 ELSE 0)
          + numVehicles(st, reach.prevK[1], reach.previousStopId)

numTransfers(st, k, id) ==
  LET n == numVehicles(st, k, id) IN IF n - 1 > 0 THEN n - 1 ELSE 0

\* findBestK taking the last of the rounds of the least cost.
findBestKLast(st, id, transferPenalty) ==
  LET MaxBy(cost) ==
        CHOOSE k \in DOMAIN cost :
          /\ \A j \in DOMAIN cost : cost[k] <= cost[j]
          /\ \A j \in DOMAIN cost : j > k => cost[j] > cost[k]
      Best(cost) == IF cost[MaxBy(cost)] < Infinity THEN <<MaxBy(cost)>> ELSE <<>>
  IN Best([k \in 0..(Len(st.tau) - 1) |->
             IF Has(st, k, id)
             THEN JsAdd(Reach(st, k, id).cost, numTransfers(st, k, id) * transferPenalty)
             ELSE Infinity])

\* findBestK(tau, id, transferPenalty): <<k>>, or <<>> for null.
findBestK(st, id, transferPenalty) ==
  LET \* _.minBy: the first round of the least cost
      MinBy(cost) ==
        CHOOSE k \in DOMAIN cost :
          /\ \A j \in DOMAIN cost : cost[k] <= cost[j]
          /\ \A j \in DOMAIN cost : j < k => cost[j] > cost[k]
      Best(cost) == IF cost[MinBy(cost)] < Infinity THEN <<MinBy(cost)>> ELSE <<>>
  IN Best([k \in 0..(Len(st.tau) - 1) |->
             IF Has(st, k, id)
             THEN JsAdd(Reach(st, k, id).cost, numTransfers(st, k, id) * transferPenalty)
             ELSE Infinity])

\* findBestRoutes(...).bestKs
findBestRoutes(st, destinationIds, options) ==
  [id \in Range(destinationIds) |->
     findBestK(st, id, options["transfer_penalty_secs"][1])]

\* oneToManyStopHelper answering every destination with the route to the first one.
oneToManyStopHelperFirst(st, departureSecs, destinationIds, options) ==
  LET first == destinationIds[1]
      bestK == findBestK(st, first, options["transfer_penalty_secs"][1])
  IN [id \in Range(destinationIds) |->
        IF Len(bestK) = 0 THEN <<>>
        ELSE << [cost |-> Reach(st, bestK[1], first).cost,
                 travelTimeSecs |-> Reach(st, bestK[1], first).timeOfDaySec
                                      - departureSecs,
                 k |-> bestK[1]] >>]

\* oneToManyStopHelper, given the matrix raptor returned: a RouteSpec or <<>> (null)
\* for every destination.
\* oneToManyStopHelper reporting the cost of an entry as its travel time.
oneToManyStopHelperByCost(st, departureSecs, destinationIds, options) ==
  LET RouteSpec(reachInfo, k) ==
        [cost |-> reachInfo.cost,
         travelTimeSecs |-> reachInfo.cost,
         k |-> k]
      RouteSpecs(bestKs) ==
        [id \in Range(destinationIds) |->
           IF Len(bestKs[id]) = 0 THEN <<>>
           ELSE << RouteSpec(Reach(st, bestKs[id][1], id), bestKs[id][1]) >>]
  IN RouteSpecs(findBestRoutes(st, destinationIds, options))

oneToManyStopHelper(st, departureSecs, destinationIds, options) ==
  LET RouteSpec(reachInfo, k) ==
        [cost |-> reachInfo.cost,
         travelTimeSecs |-> reachInfo.timeOfDaySec - departureSecs,
         k |-> k]
      RouteSpecs(bestKs) ==
        [id \in Range(destinationIds) |->
           IF Len(bestKs[id]) = 0 THEN <<>>
           ELSE << RouteSpec(Reach(st, bestKs[id][1], id), bestKs[id][1]) >>]
  IN RouteSpecs(findBestRoutes(st, destinationIds, options))

\* getStopTime(tripId, stopId, feed): the first stop-time of the trip at the stop.
getStopTime(tripId, stopId) ==
  LET Find(stopTimes) ==
        stopTimes[CHOOSE i \in 1..Len(stopTimes) :
          /\ stopTimes[i].stopId = stopId
          /\ \A j \in 1..(i - 1) : stopTimes[j].stopId # stopId]
  IN Find(tripIdToStopTime[tripId])

distanceBetweenStops(a, b) == Abs(a.stopLng - b.stopLng)

RECURSIVE traceRoute(_, _, _, _)
\* traceRoute(tau, stopId, k, feed), stops being looked up in this stopIdToStop map.
traceRoute(st, stopId, k, stopMap) ==
  LET TransitStep(reachInfo, fromST, toST) ==
        [from |-> stopMap[reachInfo.previousStopId], to |-> stopMap[stopId],
         mode |-> "Transit",
         departTimeSecs |-> fromST.timeOfDaySec,
         arriveTimeSecs |-> reachInfo.timeOfDaySec,
         travelTimeSecs |-> reachInfo.timeOfDaySec - fromST.timeOfDaySec,
         numStops |-> <<toST.stopSequence - fromST.stopSequence>>,
         tripId |-> reachInfo.tripId,
         routeId |-> tripIdToTrip[reachInfo.tripId].route_id,
         distanceKm |-> <<>>]
      WalkStep(reachInfo, fromReach) ==
        [from |-> stopMap[reachInfo.previousStopId], to |-> stopMap[stopId],
         mode |-> "Walk",
         departTimeSecs |-> fromReach.timeOfDaySec,
         arriveTimeSecs |-> reachInfo.timeOfDaySec,
         travelTimeSecs |-> reachInfo.timeOfDaySec - fromReach.timeOfDaySec,
         numStops |-> <<>>,
         tripId |-> Null,
         routeId |-> Null,
         distanceKm |-> <<distanceBetweenStops(stopMap[reachInfo.previousStopId],
                                               stopMap[stopId])>>]
      Trace(reachInfo) ==
        IF reachInfo.mode = "Origin" THEN <<>>
        ELSE Append(traceRoute(st, reachInfo.previousStopId, reachInfo.prevK[1], stopMap),
                    IF reachInfo.mode = "Transit"
                    THEN TransitStep(reachInfo,
                                     getStopTime(reachInfo.tripId, reachInfo.previousStopId),
                                     getStopTime(reachInfo.tripId, stopId))
                    ELSE WalkStep(reachInfo,
                                  Reach(st, reachInfo.prevK[1], reachInfo.previousStopId)))
  IN Trace(Reach(st, k, stopId))

RECURSIVE Sum(_)
Sum(xs) == IF Len(xs) = 0 THEN 0 ELSE Head(xs) + Sum(Tail(xs))

getTotalWalkingDistanceKm(steps) ==
  Sum([i \in 1..Len(steps) |->
         IF Truthy(steps[i].distanceKm) THEN steps[i].distanceKm[1] ELSE 0])

stopToLocation(stop) == Location(stop.stopId, stop.stopLng)

----------------------------------------------------------------------------
(* Shapes of trips and GeoJSON legs *)

\* _.reverse(array): the array object itself is reversed.
Reverse(xs) == [i \in 1..Len(xs) |-> xs[Len(xs) + 1 - i]]

\* pointsForTrip(trip): [points, heap]; points is <<>> for null.  The shape found
\* through the hint of the opposite direction is reversed where it is stored.
pointsForTrip(h, feed, trip) ==
  LET Points(shapes, shapeId, revShapeId) ==
        IF trip.shape_id # Null
          THEN [points |-> h[shapes[trip.shape_id]], heap |-> h]
        ELSE IF shapeId # Null
          THEN [points |-> h[shapes[shapeId]], heap |-> h]
        ELSE IF revShapeId # Null
          THEN [points |-> Reverse(h[shapes[revShapeId]]),
                heap |-> [h EXCEPT ![shapes[revShapeId]] = Reverse(@)]]
        ELSE [points |-> <<>>, heap |-> h]
  IN Points(h[feed.shapeIdToShapes],
            shapeHints[HintKey(trip.direction_id, trip.route_id)],
            shapeHints[HintKey(1 - trip.direction_id, trip.route_id)])

\* distToSegmentSquared(p, v, w).d2 on the line of the town.
distToSegmentSquared(p, v, w) ==
  LET lo == IF v <= w THEN v ELSE w
      hi == IF v <= w THEN w ELSE v
      closestP == IF p < lo THEN lo ELSE IF p > hi THEN hi ELSE p
  IN (p - closestP) * (p - closestP)

RECURSIVE closestFrom(_, _, _, _, _)
\* The loop of closestPointOnLineString from 0-based index i: the index of the first
\* segment with the least distance.
closestFrom(coord, lineString, i, bestD2, bestI) ==
  IF i >= Len(lineString) - 1 THEN bestI
  ELSE LET d2 == distToSegmentSquared(coord, lineString[i + 1], lineString[i + 2])
       IN IF d2 < bestD2 THEN closestFrom(coord, lineString, i + 1, d2, i)
          ELSE closestFrom(coord, lineString, i + 1, bestD2, bestI)

\* closestPointOnLineString(coord, lineString).beforeIndex
closestPointOnLineString(coord, lineString) ==
  closestFrom(coord, lineString, 0, Infinity, 0)

\* geojsonBetweenStops(tripId, stopId1, stopId2): [coordinates, heap], the longitudes of
\* the LineString; tripId is Null for a walking step.
geojsonBetweenStops(h, feed, tripId, stopId1, stopId2) ==
  LET Between(stop1, stop2, routePoints) ==
        IF Len(routePoints) = 0 THEN <<stop1.stopLng, stop2.stopLng>>
        ELSE <<stop1.stopLng>>
             \o SubSeq(routePoints,
                       closestPointOnLineString(stop1.stopLng, routePoints) + 2,
                       closestPointOnLineString(stop2.stopLng, routePoints) + 1)
             \o <<stop2.stopLng>>
      Feature(pts) ==
        [coordinates |->
           Between(h[feed.stopIdToStop][stopId1], h[feed.stopIdToStop][stopId2],
                   [i \in 1..Len(pts.points) |-> pts.points[i].shape_pt_lon]),
         heap |-> pts.heap]
  IN Feature(IF tripId \in DOMAIN tripIdToTrip
             THEN pointsForTrip(h, feed, tripIdToTrip[tripId])
             ELSE [points |-> <<>>, heap |-> h])

RECURSIVE Legs(_, _, _)
\* route.steps.map(step => feed.geojsonBetweenStops(...)): [legs, heap]
Legs(h, feed, steps) ==
  IF Len(steps) = 0 THEN [legs |-> <<>>, heap |-> h]
  ELSE LET Prepend(coordinates, rest) ==
             [legs |-> <<coordinates>> \o rest.legs, heap |-> rest.heap]
           After(leg) == Prepend(leg.coordinates, Legs(leg.heap, feed, Tail(steps)))
       IN After(geojsonBetweenStops(h, feed, Head(steps).tripId,
                                    Head(steps).from.stopId, Head(steps).to.stopId))

----------------------------------------------------------------------------
(* OnlineRouter: loading *)

d1 == Location("d1", 4)
d2 == Location("d2", 8)

\* A place next to S4 that is in no preset.
d3 == Location("d3", 5)

\* The preset of the configuration: its locations file holds d1 and d2.
PresetP ==
  [name |-> "p", locations |-> <<d1, d2>>, max_allowable_destination_walk_km |-> 1]

\* The same preset with a wider limit on the walk to a destination.
PresetWide ==
  [name |-> "p", locations |-> <<d1, d2>>, max_allowable_destination_walk_km |-> 2]

\* The largest ceiling on the number of transfers a configuration sets.
MaxCeiling == 2

\* The configurations the router is started with: nothing but the preset; both
\* ceilings; a transfer count of its own above the ceiling, and the wider preset.
LoadOptionSet ==
  { [opts |-> NoOptions, preset_destinations |-> <<PresetP>>],
    [opts |-> With(With(NoOptions, "max_allowable_number_of_transfers", MaxCeiling),
                   "max_allowable_walking_distance_km", 2),
     preset_destinations |-> <<PresetP>>],
    [opts |-> With(With(With(NoOptions, "max_allowable_number_of_transfers", 1),
                        "max_allowable_walking_distance_km", 2),
                   "max_number_of_transfers", 2),
     preset_destinations |-> <<PresetWide>>] }

\* IndexedGTFS.fromOptions(inOptions)
IndexedGTFSfromOptions(inOptions) ==
  NewIndexedGTFS(Extend(defaultLoadingOptions, inOptions))

RECURSIVE LoadPresets(_, _, _, _, _)
\* The loop of OnlineRouter.fromOptions over preset_destinations:
\* [error, presets, heap].
LoadPresets(h, feed, options, todo, presets) ==
  IF Len(todo) = 0 THEN [error |-> FALSE, presets |-> presets, heap |-> h]
  ELSE LET preset == Head(todo)
           Loaded1(aug) ==
             IF preset.max_allowable_destination_walk_km = 0 \/ aug.error
             THEN [error |-> TRUE, presets |-> presets, heap |-> h]
             ELSE LoadPresets(aug.heap, feed, options, Tail(todo),
                    (preset.name :> [locations |-> preset.locations, feed |-> aug.feed])
                    @@ presets)
       IN Loaded1(augmentWithLocations(h, feed, <<>>, preset.locations,
                    With(options, "max_walking_distance_km",
                         preset.max_allowable_destination_walk_km)))

\* OnlineRouter.fromOptions(options): [error, router, heap]
fromOptions(options) ==
  LET NewOnlineRouter(feed, loadedPresets) ==
        [error |-> loadedPresets.error,
         router |-> [feed |-> feed, presets |-> loadedPresets.presets,
                     heapBase |-> Len(loadedPresets.heap)],
         heap |-> loadedPresets.heap]
      WithFeed(base) ==
        NewOnlineRouter(base.feed, LoadPresets(base.heap, base.feed, options.opts,
                                               options.preset_destinations, <<>>))
  IN WithFeed(IndexedGTFSfromOptions(options.opts))

\* Every configuration, loaded.
Loaded == [lo \in LoadOptionSet |-> fromOptions(lo)]

\* The number of objects that live as long as the router.
HeapBase(lo) == Len(Loaded[lo].heap)

\* complete(options): the query options, completed with the router's options and the
\* defaults.
complete(thisOptions, options) ==
  LET o1 == IF Truthy(options["max_number_of_transfers"])
            THEN With(NoOptions, "max_number_of_transfers",
                      MathMin(options["max_number_of_transfers"][1],
                              thisOptions["max_allowable_number_of_transfers"]))
            ELSE NoOptions
      overrides ==
            IF Truthy(options["max_walking_distance_km"])
            THEN With(o1, "max_walking_distance_km",
                      MathMin(options["max_walking_distance_km"][1],
                              thisOptions["max_allowable_walking_distance_km"]))
            ELSE o1
  IN Extend(Extend(Extend(defaults, thisOptions), options), overrides)

----------------------------------------------------------------------------
(* The requests that are made *)

\* Origins: two places in town, one whose id is the id of a stop and one whose id is
\* the id of a preset location.
Origins == { Location("o", 1), Location("o", 5), Location("S3", 3), Location("d1", 1) }

\* Destination lists; S2 is the id of a stop, so the last list collides with the feed.
DestinationLists == { <<d1>>, <<d2>>, <<d1, d2>>, <<d2, Location("S2", 2)>> }

OriginStopIds == { "S1", "S2", "S4", "ZZ" }
DestinationStopIds == { "S3", "S4", "S6", "ZZ" }

OriginLists == { << Location("o", 1), Location("o", 5) >>,
                 << Location("o", 5), Location("S3", 3) >> }

\* The latest departure a request asks for.
LastDeparture == 20

DepartureTimes == { 9, 10, LastDeparture }

\* The largest number of transfers a request asks for.
MaxAsked == 3


QueryOptionSet ==
  { NoOptions,
    With(NoOptions, "max_number_of_transfers", 0),
    With(NoOptions, "max_number_of_transfers", MaxAsked),
    With(NoOptions, "rail_multiplier", 0),
    With(NoOptions, "rail_multiplier", 0 - 1),
    With(NoOptions, "bus_multiplier", 2),
    With(NoOptions, "max_walking_distance_km", 2),
    With(NoOptions, "exclude_stops", <<"S2">>),
    With(NoOptions, "exclude_routes", <<"rail">>),
    With(NoOptions, "max_commute_time_secs", 5),
    With(NoOptions, "max_waiting_time_secs", 0),
    With(NoOptions, "transfer_penalty_secs", 0),
    With(With(NoOptions, "rail_multiplier", 3), "max_commute_time_secs", 21) }

NoLoad == [fn |-> "none"]
NoQuery == [op |-> "none"]
NoRaptor == [at |-> "none"]
NoResult == [kind |-> "none"]
Thrown(what) == [kind |-> "error", value |-> what]

Ids(locations) == [i \in 1..Len(locations) |-> locations[i].id]

----------------------------------------------------------------------------
(* The router: started, then serving one request at a time.  A request runs *)
(* raptor() round by round; the objects it allocated are dropped when it    *)
(* returns.                                                                 *)

Init ==
  /\ \E lo \in LoadOptionSet :
       \E loaded \in {fromOptions(lo)} :
          /\ ~loaded.error
          /\ loadOptions = lo
          /\ heap = loaded.heap
          /\ router = loaded.router
  /\ load = NoLoad
  /\ pc = "idle"
  /\ query = NoQuery
  /\ qfeed = router.feed
  /\ rs = NoRaptor
  /\ result = NoResult

\* A request throws before routing starts.
Throw(q, what) ==
  /\ pc' = "result"
  /\ query' = q
  /\ result' = Thrown(what)
  /\ UNCHANGED <<load, loadOptions, heap, router, qfeed, rs>>

\* A request starts routing from stopId on the feed f, held in the heap h.
Route(q, h, f, stopId) ==
  /\ pc' = "routing"
  /\ query' = q
  /\ heap' = h
  /\ qfeed' = f
  /\ rs' = raptorInit(stopId, q.departureSecs, q.complete)
  /\ UNCHANGED <<load, loadOptions, router, result>>

\* stopToStop(originStopId, departureSecs, destinationStopId, options), up to the call
\* of raptor().
StopToStop ==
  /\ pc = "idle"
  /\ \E originStopId \in OriginStopIds, departureSecs \in DepartureTimes,
        destinationStopId \in DestinationStopIds, options \in QueryOptionSet :
       Route([op |-> "stopToStop", originStopId |-> originStopId,
              departureSecs |-> departureSecs,
              destinationStopId |-> destinationStopId, options |-> options,
              complete |-> complete(loadOptions.opts, options)],
             heap, router.feed, originStopId)

\* oneToManyHelper up to the call of raptor(): the feed is augmented with the origin
\* and the destinations.
oneToManyHelper(q) ==
  \E aug \in {augmentWithLocations(heap, router.feed, <<q.origin>>, q.destinations,
                                   q.complete)} :
     IF aug.error THEN Throw(q, "id collision")
     ELSE Route(q, aug.heap, aug.feed, q.origin.id)

\* oneToOne(origin, departureSecs, destination, options)
OneToOne ==
  /\ pc = "idle"
  /\ \E origin \in Origins, departureSecs \in DepartureTimes,
        destination \in {d1, d2, d3}, options \in QueryOptionSet :
       oneToManyHelper([op |-> "oneToOne", origin |-> origin,
                        departureSecs |-> departureSecs,
                        destinations |-> <<destination>>, options |-> options,
                        complete |-> complete(loadOptions.opts, options)])

\* oneToMany(origin, departureSecs, destinations, options)
OneToMany ==
  /\ pc = "idle"
  /\ \E origin \in Origins, departureSecs \in DepartureTimes,
        destinations \in DestinationLists, options \in QueryOptionSet :
       oneToManyHelper([op |-> "oneToMany", origin |-> origin,
                        departureSecs |-> departureSecs,
                        destinations |-> destinations, options |-> options,
                        complete |-> complete(loadOptions.opts, options)])

\* oneToManyPreset(origin, departureSecs, destinationPreset, options)
OneToManyPreset ==
  /\ pc = "idle"
  /\ \E origin \in Origins, departureSecs \in DepartureTimes,
        destinationPreset \in DOMAIN router.presets, options \in QueryOptionSet :
       \E q \in {[op |-> "oneToManyPreset", origin |-> origin,
                   departureSecs |-> departureSecs,
                   destinationPreset |-> destinationPreset,
                   destinations |-> router.presets[destinationPreset].locations,
                   options |-> options,
                   complete |-> complete(loadOptions.opts, options)]} :
         \E originFeed \in {augmentWithLocations(heap,
                               router.presets[destinationPreset].feed, <<origin>>,
                               <<>>, q.complete)} :
            IF originFeed.error THEN Throw(q, "id collision")
            ELSE Route(q, originFeed.heap, originFeed.feed, origin.id)

\* manyToMany(origins, departureSecs, destinations, options): the first origin.
ManyToMany ==
  /\ pc = "idle"
  /\ \E origins \in OriginLists, departureSecs \in {9},
        destinations \in {<<d1, d2>>}, options \in {NoOptions} :
       oneToManyHelper([op |-> "manyToMany", origin |-> Head(origins),
                        origins |-> Tail(origins), out |-> <<>>,
                        departureSecs |-> departureSecs,
                        destinations |-> destinations, options |-> options,
                        complete |-> complete(loadOptions.opts, options)])

----------------------------------------------------------------------------
(* The rounds of raptor() *)

InitialWalk ==
  /\ pc = "routing"
  /\ rs.at = "initialWalk"
  /\ rs' = stepInitialWalk(rs, heap, qfeed, query.complete)
  /\ UNCHANGED <<load, loadOptions, heap, router, pc, query, qfeed, result>>

TakeVehicles ==
  /\ pc = "routing"
  /\ rs.at = "takeVehicles"
  /\ rs' = stepTakeVehicles(rs, query.complete)
  /\ UNCHANGED <<load, loadOptions, heap, router, pc, query, qfeed, result>>

MakeTransfers ==
  /\ pc = "routing"
  /\ rs.at = "makeTransfers"
  /\ rs' = stepMakeTransfers(rs, heap, qfeed, query.complete)
  /\ UNCHANGED <<load, loadOptions, heap, router, pc, query, qfeed, result>>

ClearMarks ==
  /\ pc = "routing"
  /\ rs.at = "clear"
  /\ rs' = stepClear(rs)
  /\ UNCHANGED <<load, loadOptions, heap, router, pc, query, qfeed, result>>


----------------------------------------------------------------------------
(* raptor() has returned: the rest of each request *)

\* The request returns: the objects it allocated are garbage.
Return(q, value) ==
  /\ pc' = "result"
  /\ query' = q
  /\ result' = value
  /\ heap' = SubSeq(heap, 1, router.heapBase)
  /\ qfeed' = router.feed
  /\ rs' = NoRaptor
  /\ UNCHANGED <<load, loadOptions, router>>

\* The Route object of stopToStop and oneToOne.
RouteOf(origin, destination, departureSecs, travelTimeSecs, steps) ==
  [kind |-> "route",
   value |-> [origin |-> origin, destination |-> destination,
              departureSecs |-> departureSecs,
              arriveTimeSecs |-> departureSecs + travelTimeSecs,
              travelTimeSecs |-> travelTimeSecs,
              walkingDistanceKm |-> getTotalWalkingDistanceKm(steps),
              steps |-> steps]]

\* What stopToStop returns, given the matrix.
stopToStop(st, h, feed, q) ==
  LET Answer(route, stopMap) ==
        IF Len(route) = 0
        THEN Thrown("TypeError")  \* the properties of null are read
        ELSE IF q.originStopId \notin DOMAIN stopMap
        THEN Thrown("TypeError")  \* stopToLocation(undefined)
        ELSE RouteOf(stopToLocation(stopMap[q.originStopId]),
                     stopToLocation(stopMap[q.destinationStopId]),
                     q.departureSecs, route[1].travelTimeSecs,
                     traceRoute(st, q.destinationStopId, route[1].k, stopMap))
  IN Answer(oneToManyStopHelper(st, q.departureSecs, <<q.destinationStopId>>,
                                q.complete)[q.destinationStopId],
            h[feed.stopIdToStop])

\* What oneToOne returns, given the matrix and the augmented feed.
oneToOne(st, h, feed, q) ==
  LET Answer(destination, route) ==
        IF Len(route) = 0 THEN [kind |-> "null"]
        ELSE RouteOf(q.origin, destination, q.departureSecs, route[1].travelTimeSecs,
                     traceRoute(st, destination.id, route[1].k, h[feed.stopIdToStop]))
  IN Answer(q.destinations[1],
            oneToManyStopHelper(st, q.departureSecs, <<q.destinations[1].id>>,
                                q.complete)[q.destinations[1].id])

\* What oneToMany and oneToManyPreset return, given the matrix: the travel times.
oneToMany(st, q) ==
  LET TravelTimes(routes) ==
        [id \in DOMAIN routes |->
           IF Len(routes[id]) = 1 THEN routes[id][1].travelTimeSecs ELSE Infinity]
  IN TravelTimes(oneToManyStopHelper(st, q.departureSecs, Ids(q.destinations),
                                     q.complete))

ReturnStopToStop ==
  /\ pc = "routing"
  /\ rs.at = "done"
  /\ query.op = "stopToStop"
  /\ Return(query, stopToStop(rs, heap, qfeed, query))

ReturnOneToOne ==
  /\ pc = "routing"
  /\ rs.at = "done"
  /\ query.op = "oneToOne"
  /\ Return(query, oneToOne(rs, heap, qfeed, query))

ReturnOneToMany ==
  /\ pc = "routing"
  /\ rs.at = "done"
  /\ query.op \in {"oneToMany", "oneToManyPreset"}
  /\ Return(query, [kind |-> "times", value |-> oneToMany(rs, query)])

\* manyToMany: the travel times of one origin are stored, and the next origin, if
\* any, is routed.
ReturnManyToMany ==
  /\ pc = "routing"
  /\ rs.at = "done"
  /\ query.op = "manyToMany"
  /\ \E out \in {(query.origin.id :> oneToMany(rs, query)) @@ query.out} :
       IF Len(query.origins) = 0
       THEN Return([query EXCEPT !.out = out], [kind |-> "matrix", value |-> out])
       ELSE \E q \in {[query EXCEPT !.out = out, !.origin = Head(query.origins),
                                    !.origins = Tail(query.origins)]} :
              \E aug \in {augmentWithLocations(SubSeq(heap, 1, router.heapBase),
                             router.feed, <<q.origin>>, q.destinations, q.complete)} :
                 IF aug.error THEN Return(q, Thrown("id collision"))
                 ELSE Route(q, aug.heap, aug.feed, q.origin.id)

\* routeToGeojson(route), on the route that was returned last.
RouteToGeojson ==
  /\ pc = "result"
  /\ result.kind \in {"route", "null"}
  /\ IF result.kind = "null"
     THEN /\ result' = [kind |-> "geojson", value |-> <<>>]
          /\ heap' = heap
     ELSE \E route \in {result.value} :
          \E aug \in {augmentWithLocations(heap, router.feed, <<route.origin>>,
                         <<route.destination>>, loadOptions.opts)} :
            IF aug.error
            THEN /\ result' = Thrown("id collision")
                 /\ heap' = heap
            ELSE \E legs \in {Legs(aug.heap, aug.feed, route.steps)},
                    stops \in {Select([i \in 1..Len(route.steps) |-> route.steps[i].to],
                                      LAMBDA stop : stop.stopId # route.destination.id)} :
                   /\ result' = [kind |-> "geojson",
                                 value |-> [legs |-> legs.legs,
                                            points |-> <<route.origin, route.destination>>
                                              \o [i \in 1..Len(stops) |->
                                                    stopToLocation(stops[i])]]]
                   /\ heap' = SubSeq(legs.heap, 1, router.heapBase)
  /\ UNCHANGED <<load, loadOptions, router, pc, query, qfeed, rs>>

\* The caller has its answer; the router waits for the next request.
Respond ==
  /\ pc = "result"
  /\ pc' = "idle"
  /\ query' = NoQuery
  /\ result' = NoResult
  /\ UNCHANGED <<load, loadOptions, heap, router, qfeed, rs>>

Next ==
  \/ StopToStop
  \/ OneToOne
  \/ OneToMany
  \/ OneToManyPreset
  \/ ManyToMany
  \/ InitialWalk
  \/ TakeVehicles
  \/ MakeTransfers
  \/ ClearMarks
  \/ ReturnStopToStop
  \/ ReturnOneToOne
  \/ ReturnOneToMany
  \/ ReturnManyToMany
  \/ RouteToGeojson
  \/ Respond

Spec == Init /\ [][Next]_vars


----------------------------------------------------------------------------
(* Properties *)

\* The entries of the matrix: <<k, stopId>> for every tau[k][stopId].
Entries(st) ==
  UNION { {<<k, id>> : id \in DOMAIN Round(st, k).ref} : k \in 0..(Len(st.tau) - 1) }

\* raptor() is running or has just returned.
InRaptor == pc = "routing"

\* raptor() has returned and its caller has not yet read the matrix.
RaptorReturned == pc = "routing" /\ rs.at = "done"

\* Every entry costs at least the time elapsed since departure.
CostCoversElapsedTime ==
  \A e \in Entries(rs) :
    Reach(rs, e[1], e[2]).cost >= Reach(rs, e[1], e[2]).timeOfDaySec - rs.timeOfDaySec

\* A multiplier that never makes a ride cheaper than the time it takes, or that
\* switches the mode off.
MultiplierAddsCost(m) == m < 0 \/ m >= 1

C2_UnreachableNeverThrows ==
  (pc = "result" /\ result.kind = "error") => result.value # "TypeError"


\* oneToOne(origin, departureSecs, destination, options) as one step, on the router
\* as it stands: what it returns.
oneToOneRun(origin, departureSecs, destination, options) ==
  LET q == [origin |-> origin, departureSecs |-> departureSecs,
            destinations |-> <<destination>>,
            complete |-> complete(loadOptions.opts, options)]
      aug == augmentWithLocations(heap, router.feed, <<origin>>, q.destinations,
                                  q.complete)
  IN IF aug.error THEN Thrown("id collision")
     ELSE oneToOne(raptor(origin.id, departureSecs, aug.heap, aug.feed, q.complete),
                   aug.heap, aug.feed, q)

\* oneToMany(origin, departureSecs, destinations, options) as one step.
oneToManyRun(origin, departureSecs, destinations, options) ==
  LET q == [origin |-> origin, departureSecs |-> departureSecs,
            destinations |-> destinations,
            complete |-> complete(loadOptions.opts, options)]
      aug == augmentWithLocations(heap, router.feed, <<origin>>, destinations,
                                  q.complete)
  IN IF aug.error THEN Thrown("id collision")
     ELSE [kind |-> "times",
           value |-> oneToMany(raptor(origin.id, departureSecs, aug.heap, aug.feed,
                                      q.complete), q)]

\* oneToManyPreset(origin, departureSecs, destinationPreset, options) as one step.
oneToManyPresetRun(origin, departureSecs, destinationPreset, options) ==
  LET preset == router.presets[destinationPreset]
      q == [origin |-> origin, departureSecs |-> departureSecs,
            destinations |-> preset.locations,
            complete |-> complete(loadOptions.opts, options)]
      originFeed == augmentWithLocations(heap, preset.feed, <<origin>>, <<>>,
                                         q.complete)
  IN IF originFeed.error THEN Thrown("id collision")
     ELSE [kind |-> "times",
           value |-> oneToMany(raptor(origin.id, departureSecs, originFeed.heap,
                                      originFeed.feed, q.complete), q)]

\* The travel time a Route, or null, stands for.
TravelTime(r) == IF r.kind = "route" THEN r.value.travelTimeSecs ELSE Infinity

\* C3: whenever oneToOne(O, d) has returned a route or null, then for every
\* destination list D that holds d for which oneToMany(O, D) returns, with the same
\* departure time and options, the d-entry of oneToMany(O, D) is the travel time of
\* the route (Infinity for null).
C3_OneToOneIsOneToManyEntry ==
  (pc = "result" /\ query.op = "oneToOne" /\ result.kind \in {"route", "null"})
  => \A D \in DestinationLists :
       query.destinations[1] \in Range(D)
       => LET many == oneToManyRun(query.origin, query.departureSecs, D, query.options)
          IN many.kind = "times"
             => many.value[query.destinations[1].id] = TravelTime(result)

\* oneToOne has found a route to d2 that ends in a walk, and oneToMany to d1 and d2
\* reaches both of them.
C3_Witness ==
  /\ pc = "result"
  /\ query.op = "oneToOne"
  /\ result.kind = "route"
  /\ query.destinations = <<d2>>
  /\ LET many == oneToManyRun(query.origin, query.departureSecs, <<d1, d2>>,
                              query.options)
     IN /\ many.kind = "times"
        /\ many.value["d1"] < Infinity
        /\ many.value["d2"] = result.value.travelTimeSecs


\* The d-entries agree: both requests throw, or both return the same travel times.
SameTimes(a, b) ==
  /\ a.kind = b.kind
  /\ a.kind = "times" => a.value = b.value

\* C4 as stated: for every origin, departure time and query options, oneToManyPreset
\* returns what oneToMany returns when called with the preset's location list.
C4_PresetIsOneToMany ==
  (pc = "result" /\ query.op = "oneToManyPreset")
  => SameTimes(result,
               oneToManyRun(query.origin, query.departureSecs, query.destinations,
                            query.options))


\* The preset's limit on the walk to a destination, as configured.
PresetRadius(name) ==
  LET ps == loadOptions.preset_destinations
  IN ps[CHOOSE i \in 1..Len(ps) : ps[i].name = name].max_allowable_destination_walk_km

\* C4, amended: when the completed max_walking_distance_km does not exceed the preset's
\* max_allowable_destination_walk_km and the origin's id is not the id of a preset
\* location, oneToManyPreset returns what oneToMany returns when called with the
\* preset's location list (the same travel times, or both throw).
C4_PresetIsOneToManyWithinRadius ==
  ( /\ pc = "result"
    /\ query.op = "oneToManyPreset"
    /\ JsLe(query.complete["max_walking_distance_km"][1],
            PresetRadius(query.destinationPreset))
    /\ ~ Includes(Ids(query.destinations), query.origin.id) )
  => SameTimes(result,
               oneToManyRun(query.origin, query.departureSecs, query.destinations,
                            query.options))

\* oneToManyPreset has returned a finite travel time to d1, with walks of at most 1 km
\* on a preset feed that holds the walks of up to 2 km between stops and d1.
C4_Witness ==
  /\ pc = "result"
  /\ query.op = "oneToManyPreset"
  /\ result.kind = "times"
  /\ result.value["d1"] < Infinity
  /\ query.complete["max_walking_distance_km"][1] = 1
  /\ PresetRadius(query.destinationPreset) = 2
  /\ \E t \in Range(heap[heap[router.presets["p"].feed.walkingTransfers]["S2"]]) :
       t.stopId = "d1" /\ t.km = <<2>>


\* The parts of a feed that augmentWithLocations replaces in the feed it returns.
Augmentable(c) ==
  [stops |-> c.stops, stopIdToStop |-> c.stopIdToStop,
   walkingTransfers |-> c.walkingTransfers, stopIndex |-> c.stopIndex]

\* What the router's feed and its preset feeds hold.
RouterContents(h, r) ==
  [feed |-> Contents(h, r.feed),
   presets |-> [name \in DOMAIN r.presets |-> Contents(h, r.presets[name].feed)]]

\* What they held when the router was loaded.
LoadedContents ==
  [lo \in LoadOptionSet |-> RouterContents(Loaded[lo].heap, Loaded[lo].router)]

\* The feed the running request called augmentWithLocations on, and the locations it
\* passed.
Receiver ==
  IF query.op = "oneToManyPreset" THEN router.presets[query.destinationPreset].feed
  ELSE router.feed
Passed ==
  IF query.op = "oneToManyPreset" THEN <<query.origin>>
  ELSE query.destinations \o <<query.origin>>

IsPrefix(xs, ys) == Len(xs) <= Len(ys) /\ SubSeq(ys, 1, Len(xs)) = xs

\* The feed that augmentWithLocations returned holds the receiver's stops and
\* footpaths and, in addition, the locations as stops.
HoldsLocations(a, r, locations) ==
  /\ Len(a.stops) = Len(r.stops) + Len(locations)
  /\ SubSeq(a.stops, 1, Len(r.stops)) = r.stops
  /\ \A i \in 1..Len(locations) :
       /\ a.stops[Len(r.stops) + i].stopId = locations[i].id
       /\ a.stops[Len(r.stops) + i].stopLng = locations[i].longitude
       /\ locations[i].id \in DOMAIN a.stopIdToStop
  /\ \A id \in DOMAIN r.stopIdToStop : a.stopIdToStop[id] = r.stopIdToStop[id]
  /\ a.stopIndex = r.stopIndex \o locations
  /\ \A id \in DOMAIN r.walkingTransfers :
       IsPrefix(r.walkingTransfers[id], a.walkingTransfers[id])

\* C5: after any sequence of augmentations the stops, stopIdToStop, walkingTransfers
\* lists and spatial index of every feed augmentWithLocations was called on (the
\* router's feed and its preset feeds) hold what they held before; and the feed it
\* returned holds, in addition, the new stops and walking edges.
C5_ReceiverUnchanged ==
  /\ Augmentable(RouterContents(heap, router).feed)
       = Augmentable(LoadedContents[loadOptions].feed)
  /\ \A name \in DOMAIN router.presets :
       Augmentable(RouterContents(heap, router).presets[name])
         = Augmentable(LoadedContents[loadOptions].presets[name])
  /\ (pc = "routing" /\ query.op # "stopToStop")
     => HoldsLocations(Contents(heap, qfeed), Contents(heap, Receiver), Passed)

\* A request routes on a feed augmented with o, d1 and d2, in which the footpaths of
\* S3 are those of the router's feed followed by the walk to d1, and o has walks of
\* its own.
C5_Witness ==
  /\ pc = "routing"
  /\ query.op = "oneToMany"
  /\ query.destinations = <<d1, d2>>
  /\ query.origin.id = "o"
  /\ LET a == Contents(heap, qfeed)
         r == Contents(heap, router.feed)
     IN /\ a.walkingTransfers["S3"] = r.walkingTransfers["S3"] \o <<WalkKm("d1", 1)>>
        /\ Len(r.walkingTransfers["S3"]) > 0
        /\ "o" \in DOMAIN a.walkingTransfers
        /\ "o" \notin DOMAIN r.walkingTransfers
        /\ Len(a.walkingTransfers["o"]) > 0


\* C6: no request modifies the router's feed or its preset feeds: after any sequence
\* of requests the router holds the feeds it was loaded with, and every index of
\* them holds what it held after loading.
C6_QueriesLeaveFeedsUnchanged ==
  /\ router = Loaded[loadOptions].router
  /\ RouterContents(heap, router) = LoadedContents[loadOptions]


IdSet(locations) == {locations[i].id : i \in 1..Len(locations)}

\* C7: a feed is only ever augmented with locations whose ids are not ids of its
\* stops (the feed a request routes on; the preset feeds, against the loaded feed);
\* a request whose locations collide ends in the error, and no augmented feed exists.
C7_CollisionIsAnError ==
  /\ (pc = "routing" /\ query.op # "stopToStop")
     => IdSet(Passed) \cap DOMAIN Contents(heap, Receiver).stopIdToStop = {}
  /\ \A name \in DOMAIN router.presets :
       IdSet(router.presets[name].locations)
         \cap DOMAIN Contents(heap, router.feed).stopIdToStop = {}
  /\ (pc = "result" /\ query.op \in {"oneToOne", "oneToMany", "oneToManyPreset"})
     => ( (IdSet(Passed) \cap DOMAIN Contents(heap, Receiver).stopIdToStop # {})
          <=> result = Thrown("id collision") )
  /\ (pc = "result" /\ result = Thrown("id collision"))
     => (qfeed = router.feed /\ Len(heap) = HeapBase(loadOptions))

\* oneToMany was called with a destination whose id is the id of stop S2 and has
\* thrown; no object was allocated.
C7_Witness ==
  /\ pc = "result"
  /\ query.op = "oneToMany"
  /\ "S2" \in IdSet(query.destinations)
  /\ query.origin.id = "o"
  /\ result = Thrown("id collision")
  /\ Len(heap) = HeapBase(loadOptions)


\* A ceiling of the router's configuration; one that is not configured counts as
\* infinity.
Ceiling(key) ==
  IF Len(loadOptions.opts[key]) = 1 THEN loadOptions.opts[key][1] ELSE Infinity

\* C8: the completed options of every request satisfy
\* max_number_of_transfers <= max_allowable_number_of_transfers and
\* max_walking_distance_km <= max_allowable_walking_distance_km.
C8_WithinCeilings ==
  query.op # "none"
  => /\ JsLe(query.complete["max_number_of_transfers"][1],
             Ceiling("max_allowable_number_of_transfers"))
     /\ JsLe(query.complete["max_walking_distance_km"][1],
             Ceiling("max_allowable_walking_distance_km"))


\* The rounds of a run with T transfers: `first` initial walking rounds (0 or 1), then
\* 1 + T times a boarding round and a walking round, filling tau[1], tau[2], ...
ExpectedRounds(T, first) ==
  [j \in 1..(first + 2 * (1 + T)) |->
     [kind |-> IF j <= first THEN "walk"
               ELSE IF (j - first) % 2 = 1 THEN "board" ELSE "walk",
      k |-> j]]

\* The number of transfers of the running request, a number >= 0.
TransfersGiven == JsGe(query.complete["max_number_of_transfers"][1], 0)

\* C9 as stated: for every origin and T >= 0, raptor returns after exactly 1 + T
\* boarding rounds, each followed by one walking round, and tau has exactly the
\* indices 0 .. 2 * (1 + T).
C9_RoundsFromAnyOrigin ==
  (RaptorReturned /\ TransfersGiven)
  => LET T == query.complete["max_number_of_transfers"][1]
     IN /\ rs.rounds = ExpectedRounds(T, 0)
        /\ Len(rs.tau) = 2 * (1 + T) + 1

\* C9, amended: raptor never runs a round beyond the expected ones, and for T >= 0 it
\* returns after exactly 1 + T boarding rounds, each immediately followed by one
\* walking round; tau then has exactly the indices 0 .. 2 * (1 + T) if the origin has
\* stop-times, and 0 .. 2 * (1 + T) + 1 if it has none, tau[1] being filled by an
\* initial walking round.
C9_RoundsAlternate ==
  (InRaptor /\ TransfersGiven)
  => LET T == query.complete["max_number_of_transfers"][1]
         first == IF rs.stopId \in DOMAIN stopIdToStopTimes THEN 0 ELSE 1
     IN /\ IsPrefix(rs.rounds, ExpectedRounds(T, first))
        /\ Len(rs.tau) = Len(rs.rounds) + 1
        /\ rs.at = "done"
           => /\ rs.rounds = ExpectedRounds(T, first)
              /\ Len(rs.tau) = 2 * (1 + T) + 1 + first

\* raptor has returned from a run with 2 transfers from an origin that is not a stop:
\* seven rounds, the first of them a walk.
C9_Witness ==
  /\ RaptorReturned
  /\ query.complete["max_number_of_transfers"][1] = 2
  /\ rs.stopId = "o"
  /\ Len(rs.tau) = 8
  /\ rs.rounds[1].kind = "walk"
  /\ rs.rounds[2].kind = "board"


\* C10: when raptor returns, no entry of any round of tau is still marked isUnexplored.
C10_NoMarksLeft ==
  RaptorReturned
  => \A e \in Entries(rs) : ~Reach(rs, e[1], e[2]).isUnexplored


\* The score of round k for a stop: its cost, and the penalty for every Transit leg
\* of the back-pointer chain after the first.
Score(st, k, id, penalty) ==
  LET legs == numVehicles(st, k, id)
  IN Reach(st, k, id).cost + (IF legs > 1 THEN legs - 1 ELSE 0) * penalty

\* The rounds of the matrix that hold the stop.
RoundsWith(st, id) == {k \in 0..(Len(st.tau) - 1) : Has(st, k, id)}

\* C11: on the matrix raptor returned, for every id and for the penalty of the request
\* as for no penalty, findBestK gives null exactly when no round holds the id, and
\* otherwise a round holding it whose score no round beats and no earlier round equals.
C11_BestKMinimises ==
  RaptorReturned
  => \A id \in Range(IdOrder) :
       \A penalty \in {0, query.complete["transfer_penalty_secs"][1]} :
         LET best == findBestK(rs, id, penalty)
         IN /\ (best = <<>>) <=> (RoundsWith(rs, id) = {})
            /\ best # <<>>
               => /\ best[1] \in RoundsWith(rs, id)
                  /\ \A j \in RoundsWith(rs, id) :
                       /\ Score(rs, best[1], id, penalty) <= Score(rs, j, id, penalty)
                       /\ j < best[1]
                          => Score(rs, j, id, penalty) > Score(rs, best[1], id, penalty)

\* raptor has returned a matrix in which S4 is held by two rounds of equal score, the
\* earlier of which findBestK gives; the penalty decides the round of another stop; and
\* ZZ, where no trip calls, is in no round.
C11_Witness ==
  /\ RaptorReturned
  /\ \E k \in RoundsWith(rs, "S4") :
       /\ findBestK(rs, "S4", 0) = <<k>>
       /\ \E j \in RoundsWith(rs, "S4") :
            j > k /\ Score(rs, j, "S4", 0) = Score(rs, k, "S4", 0)
  /\ \E id \in Range(IdOrder) :
       /\ findBestK(rs, id, 0) # <<>>
       /\ findBestK(rs, id, 30) # <<>>
       /\ findBestK(rs, id, 0) # findBestK(rs, id, 30)
  /\ findBestK(rs, "ZZ", 0) = <<>>


\* Where a traveller is in a journey from the origin of the running request: the stop,
\* the time, the cost so far, the boardings so far, and whether the last leg was a walk.
JourneyStart ==
  [stopId |-> rs.stopId, timeOfDaySec |-> rs.timeOfDaySec, cost |-> 0, boardings |-> 0,
   walked |-> FALSE]

\* The feasible walks from a position: over an edge of the feed the request routes on,
\* not after a walk, within max_walking_distance_km, not to an excluded stop, arriving
\* within the commute limit.
WalkLegs(p, options, lastValid) ==
  LET transfers == heap[qfeed.walkingTransfers]
      list == IF p.stopId \in DOMAIN transfers THEN heap[transfers[p.stopId]] ELSE <<>>
      secs(e) == IF Len(e.secs) = 1 THEN e.secs[1]
                 ELSE e.km[1] * (3600 \div options["walking_speed_kph"][1])
      feasible(e) ==
        /\ Len(e.km) = 1 => JsLe(e.km[1], options["max_walking_distance_km"][1])
        /\ ~ isStopExcluded(e.stopId, options)
        /\ JsLe(JsAdd(p.timeOfDaySec, secs(e)), lastValid)
  IN IF p.walked THEN {}
     ELSE { [stopId |-> e.stopId, timeOfDaySec |-> p.timeOfDaySec + secs(e),
             cost |-> p.cost + secs(e), boardings |-> p.boardings, walked |-> TRUE] :
            e \in {x \in Range(list) : feasible(x)} }

\* The feasible rides from a position: boarding a stop-time A of the stop within the
\* waiting time and the commute limit, on a trip whose route is not excluded and whose
\* mode is not switched off, and alighting at a later stop-time B of the trip within the
\* commute limit, no stop from the one after A up to B being excluded.
RideLegs(p, options, lastValid, maxBoardings) ==
  LET departures == IF p.stopId \in DOMAIN stopIdToStopTimes
                    THEN Range(stopIdToStopTimes[p.stopId]) ELSE {}
      boardable(A) ==
        /\ JsGe(A.timeOfDaySec, p.timeOfDaySec)
        /\ JsLe(A.timeOfDaySec, JsAdd(p.timeOfDaySec, options["max_waiting_time_secs"][1]))
        /\ JsLe(A.timeOfDaySec, lastValid)
        /\ ~ isTripExcluded(tripIdToTrip[A.tripId], options)
        /\ JsGe(getCostMultiplier(tripIdToTrip[A.tripId], options), 0)
      rides(A) ==
        LET all == tripIdToStopTime[A.tripId]
            a == CHOOSE i \in 1..Len(all) : all[i] = A
        IN { [stopId |-> all[b].stopId, timeOfDaySec |-> all[b].timeOfDaySec,
              cost |-> p.cost + (A.timeOfDaySec - p.timeOfDaySec)
                       + getCostMultiplier(tripIdToTrip[A.tripId], options)
                         * (all[b].timeOfDaySec - A.timeOfDaySec),
              boardings |-> p.boardings + 1, walked |-> FALSE] :
             b \in {i \in (a + 1)..Len(all) :
                      \A j \in (a + 1)..i :
                        /\ JsLe(all[j].timeOfDaySec, lastValid)
                        /\ ~ isStopExcluded(all[j].stopId, options)} }
  IN IF p.boardings >= maxBoardings THEN {}
     ELSE UNION { rides(A) : A \in {x \in departures : boardable(x)} }

RECURSIVE Journeys(_, _, _, _, _)
\* The positions of the feasible journeys of at most `legs` more legs.
Journeys(ps, legs, options, lastValid, maxBoardings) ==
  IF legs = 0 THEN ps
  ELSE Journeys(ps \cup UNION { WalkLegs(p, options, lastValid)
                                  \cup RideLegs(p, options, lastValid, maxBoardings) :
                                p \in ps },
                legs - 1, options, lastValid, maxBoardings)

\* The positions of every feasible journey of the running request with at most
\* 1 + max_number_of_transfers boardings.
FeasibleJourneys ==
  LET maxBoardings == 1 + query.complete["max_number_of_transfers"][1]
  IN Journeys({JourneyStart}, 2 * maxBoardings + 1, query.complete,
              rs.lastValidTimeSecs, maxBoardings)

\* The matrix holds, in a round of at most p.boardings boardings, an entry for the stop
\* of p that costs no more than p.
Covered(p) ==
  \E k \in RoundsWith(rs, p.stopId) :
    /\ numVehicles(rs, k, p.stopId) <= p.boardings
    /\ Reach(rs, k, p.stopId).cost <= p.cost

\* C12: when raptor has returned, for every stop s and every n from 1 to
\* 1 + max_number_of_transfers, if a feasible journey reaches s with n boardings, then
\* a round of tau of at most n boardings holds an entry for s of at most that cost.
C12_EveryJourneyIsCovered ==
  (RaptorReturned /\ TransfersGiven)
  => \A p \in FeasibleJourneys : p.boardings >= 1 => Covered(p)


\* The boarding rounds that have run.
BoardingRounds(st) == {st.rounds[i].k : i \in {j \in 1..Len(st.rounds) : st.rounds[j].kind = "board"}}

\* A boarding round holds nothing but what was boarded from the round before it.
OnlyBoarded(st, k) ==
  \A id \in DOMAIN Round(st, k).ref :
    /\ Reach(st, k, id).mode = "Transit"
    /\ Reach(st, k, id).prevK = <<k - 1>>

\* The stops D at the end of a feasible walk O -> A, ride A => B, walk B -> D from the
\* origin of the running request.
WalkRideWalk(options, lastValid) ==
  { p3.stopId : p3 \in UNION { WalkLegs(p2, options, lastValid) :
      p2 \in UNION { RideLegs(p1, options, lastValid, 1) :
        p1 \in WalkLegs(JourneyStart, options, lastValid) } } }

\* C13: tau[k] of every boarding round holds only Transit entries with prevK = k - 1;
\* and when raptor has returned from an origin that is not a served stop, every stop D
\* for which a walk O -> A, a ride A => B and a walk B -> D are each feasible is held by
\* tau[3], the walking round after the first boarding round.
C13_BoardingRoundsStartAfresh ==
  InRaptor
  => /\ \A k \in BoardingRounds(rs) : OnlyBoarded(rs, k)
     /\ ( /\ rs.at = "done"
          /\ TransfersGiven
          /\ rs.stopId \notin DOMAIN stopIdToStopTimes )
        => \A D \in WalkRideWalk(query.complete, rs.lastValidTimeSecs) : Has(rs, 3, D)


----------------------------------------------------------------------------
(* The loading functions, each called on its own.  The feeds they are given *)
(* are variants of the town: its stops grouped into stations, with a        *)
(* transfers.txt of a few rows.                                             *)

\* The parent_station column: S6 is the station of S2 and S3, S4 that of S3, S5
\* and S6.  No stop is its own parent.
ParentChoices ==
  [S2 : {Null, "S6"}, S3 : {Null, "S6", "S4"}, S5 : {Null, "S4"}, S6 : {Null, "S4"}]

StationStops(parents) ==
  [i \in 1..Len(RawStops) |->
     IF RawStops[i].stopId \in DOMAIN parents
     THEN [RawStops[i] EXCEPT !.parentStation = parents[RawStops[i].stopId]]
     ELSE RawStops[i]]

TransferRow(from, to, type, secs) ==
  [fromStopId |-> from, toStopId |-> to, type |-> type, minTransferTime |-> secs]

\* The rows transfers.txt is made of.
TransferChoices ==
  { TransferRow("S6", "S4", "MIN_TIME", 7),
    TransferRow("S2", "S4", "MIN_TIME", 3),
    TransferRow("S2", "S3", "MIN_TIME", 5),
    TransferRow("S6", "S6", "MIN_TIME", 30),
    TransferRow("S1", "S2", "RECOMMENDED", Null),
    TransferRow("S3", "S5", "INFEASIBLE", Null) }

\* The number of rows of transfers.txt.
MaxTransferRows == 2

TransfersFiles == UNION {[1..n -> TransferChoices] : n \in 0..MaxTransferRows}

StationFeeds ==
  {[stops |-> StationStops(p), transfers |-> t] : p \in ParentChoices, t \in TransfersFiles}

\* The loading options of a call: the default, and stops three km apart being
\* walkable.
LoadingOptionSet ==
  { [opts |-> NoOptions, preset_destinations |-> <<>>],
    [opts |-> With(NoOptions, "max_allowable_between_stop_walk_km", 3),
     preset_destinations |-> <<>>] }

\* A date YYYYMMDD is kept as the number its digits spell: two dates of eight digits
\* compare as strings the way these numbers compare.
Year(date) == date \div 10000
Month(date) == (date \div 100) % 100
Day(date) == date % 100

\* The days from 1970-01-01 to a day of the civil calendar.
DaysFromCivil(y, m, d) ==
  LET From(yy, mp) ==
        (yy \div 400) * 146097 + (yy % 400) * 365 + (yy % 400) \div 4
        - (yy % 400) \div 100 + (153 * mp + 2) \div 5 + d - 1 - 719468
  IN From(IF m <= 2 THEN y - 1 ELSE y, (m + 9) % 12)

\* utils.dayOfWeek(date): new Date(year, month - 1, day).getDay(), Sunday being 0;
\* 1970-01-01 was a Thursday.
dayOfWeek(date) == (DaysFromCivil(Year(date), Month(date), Day(date)) + 4) % 7

ServiceAdded == 1
ServiceRemoved == 2

RECURSIVE applyExceptions(_, _, _)
\* The loop over calendarDates: the services after it, or the error it throws.
applyExceptions(services, calendarDates, date) ==
  IF Len(calendarDates) = 0 THEN [error |-> FALSE, services |-> services]
  ELSE LET exception == Head(calendarDates)
       IN IF exception.date # date
          THEN applyExceptions(services, Tail(calendarDates), date)
          ELSE IF exception.exception_type = ServiceAdded
          THEN applyExceptions(services \cup {exception.service_id}, Tail(calendarDates), date)
          ELSE IF exception.exception_type = ServiceRemoved
          THEN applyExceptions(services \ {exception.service_id}, Tail(calendarDates), date)
          ELSE [error |-> TRUE, services |-> services]

\* filterServicesByDate with the end of the date range left out.
filterServicesBeforeEnd(services, calendars, calendarDates, date) ==
  LET dow(service) == << service.sunday, service.monday, service.tuesday,
                         service.wednesday, service.thursday, service.friday,
                         service.saturday >>
      deleted == {calendars[i].service_id : i \in {j \in 1..Len(calendars) :
                    IF calendars[j].start_date <= date /\ date < calendars[j].end_date
                    THEN ~ dow(calendars[j])[dayOfWeek(date) + 1]
                    ELSE TRUE}}
  IN applyExceptions(services \ deleted, calendarDates, date)

\* filterServicesByDate(services, calendars, calendarDates, date)
filterServicesByDate(services, calendars, calendarDates, date) ==
  LET dow(service) == << service.sunday, service.monday, service.tuesday,
                         service.wednesday, service.thursday, service.friday,
                         service.saturday >>
      deleted == {calendars[i].service_id : i \in {j \in 1..Len(calendars) :
                    IF calendars[j].start_date <= date /\ date <= calendars[j].end_date
                    THEN ~ dow(calendars[j])[dayOfWeek(date) + 1]
                    ELSE TRUE}}
  IN applyExceptions(services \ deleted, calendarDates, date)

\* A calendar.txt row running on weekdays, at weekends or on both.
CalendarRow(id, weekdays, weekends, start, end) ==
  [service_id |-> id, monday |-> weekdays, tuesday |-> weekdays, wednesday |-> weekdays,
   thursday |-> weekdays, friday |-> weekdays, saturday |-> weekends,
   sunday |-> weekends, start_date |-> start, end_date |-> end]

CalendarFiles ==
  { <<>>,
    << CalendarRow("wk", TRUE, FALSE, 20170101, 20170131),
       CalendarRow("we", FALSE, TRUE, 20170101, 20170131) >>,
    << CalendarRow("wk", TRUE, FALSE, 20170102, 20170106),
       CalendarRow("we", FALSE, TRUE, 20170107, 20170107) >>,
    << CalendarRow("wk", TRUE, TRUE, 20170101, 20170131),
       CalendarRow("wk", TRUE, FALSE, 20170101, 20170201) >> }

CalendarDateRow(id, date, type) == [service_id |-> id, date |-> date, exception_type |-> type]

\* The rows calendar_dates.txt is made of; 3 is no exception type.
CalendarDateChoices ==
  { CalendarDateRow("wk", 20170107, ServiceAdded),
    CalendarDateRow("wk", 20170107, ServiceRemoved),
    CalendarDateRow("we", 20170107, ServiceRemoved),
    CalendarDateRow("x", 20170106, ServiceAdded),
    CalendarDateRow("we", 20170106, 3),
    CalendarDateRow("wk", 20170201, ServiceRemoved) }

\* The number of rows of calendar_dates.txt.
MaxCalendarDates == 2

CalendarDatesFiles == UNION {[1..n -> CalendarDateChoices] : n \in 0..MaxCalendarDates}

\* The departure dates asked for, and the day of the week each was.
DepartureDates == {20170102, 20170106, 20170107, 20170201}

ServiceIds == {"wk", "we", "x"}

ServiceCalls ==
  {[services |-> sv, calendars |-> c, calendarDates |-> cd, date |-> d] :
     sv \in {{}, {"wk", "we"}, {"we", "x"}, ServiceIds},
     c \in CalendarFiles, cd \in CalendarDatesFiles, d \in DepartureDates}

\* directory.split('/').pop(), a directory being kept as the list of its parts.
getLastDirectory(directory) == directory[Len(directory)]

\* The directories that hold a feed: two of them end in the same part.
Directories == { <<"data", "a">>, <<"data", "b">>, <<"data", "c">>, <<"more", "a">> }

FileStop(id, lng, parent) ==
  [stopId |-> id, stopLat |-> 0, stopLng |-> lng, parentStation |-> parent]

\* stops.txt, stop_times.txt and transfers.txt of each directory.  Stop X is at 0 in
\* data/a and data/c and at 5 in data/b and more/a; stop Y is at 1 wherever it is.
Files(directory) ==
  CASE directory = <<"data", "a">> ->
         [stops |-> << FileStop("X", 0, Null), FileStop("Y", 1, "X") >>,
          stopTimes |-> << ST("a1", "X", 1, 10), ST("a1", "Y", 2, 20) >>,
          transfers |-> << TransferRow("X", "Y", "MIN_TIME", 4) >>]
    [] directory = <<"data", "b">> ->
         [stops |-> << FileStop("Y", 1, Null), FileStop("X", 5, Null) >>,
          stopTimes |-> << ST("b1", "Y", 1, 10), ST("b1", "X", 2, 20) >>,
          transfers |-> <<>>]
    [] directory = <<"data", "c">> ->
         [stops |-> << FileStop("X", 0, Null), FileStop("Z", 7, "X") >>,
          stopTimes |-> << ST("c1", "Z", 1, 10), ST("c1", "X", 2, 20) >>,
          transfers |-> << TransferRow("Z", "X", "MIN_TIME", 9) >>]
    [] directory = <<"more", "a">> ->
         [stops |-> << FileStop("X", 5, Null), FileStop("Z", 8, "X") >>,
          stopTimes |-> << ST("m1", "X", 1, 10), ST("m1", "Z", 2, 20) >>,
          transfers |-> <<>>]

\* new GTFS(directory).load(): every stop is given the name of the feed.
GTFSload(directory) ==
  LET Named(name, files) ==
        [name |-> name,
         stops |-> [i \in 1..Len(files.stops) |->
                      [stopId |-> files.stops[i].stopId,
                       stopLat |-> files.stops[i].stopLat,
                       stopLng |-> files.stops[i].stopLng,
                       parentStation |-> files.stops[i].parentStation,
                       feed |-> name]],
         stopTimes |-> files.stopTimes,
         transfers |-> files.transfers,
         attributes |-> Attributes(name, files.transfers)]
  IN Named(getLastDirectory(directory), Files(directory))

\* updateIds(values, fields, stopMapping)
updateIds(values, fields, stopMapping) ==
  [i \in 1..Len(values) |->
     [f \in DOMAIN values[i] |->
        IF f \in fields /\ values[i][f] \in DOMAIN stopMapping
        THEN stopMapping[values[i][f]] ELSE values[i][f]]]

\* anyLocationMismatches(stops): does a stop of the list differ in place from the first?
anyLocationMismatches(stops) ==
  /\ Len(stops) > 0
  /\ \E i \in 2..Len(stops) :
       stops[1].stopLat # stops[i].stopLat \/ stops[1].stopLng # stops[i].stopLng

\* The stop ids that are to be renamed.
dupeStopIds(allStops) ==
  {id \in {allStops[i].stopId : i \in 1..Len(allStops)} :
     LET Picked(stops) == Len(stops) > 1 /\ anyLocationMismatches(stops)
     IN Picked(Select(allStops, LAMBDA stop : stop.stopId = id))}

\* The stopMapping of one feed.
stopMapping(feed, dupes) ==
  [id \in {feed.stops[i].stopId : i \in 1..Len(feed.stops)} \cap dupes |->
     feed.name \o "_" \o id]

\* _.extend({}, ...feeds.map(feed => feed.attributes)): a later feed's key wins.
mergeAttributes(feeds) ==
  [name \in UNION {DOMAIN feeds[i].attributes : i \in 1..Len(feeds)} |->
     feeds[CHOOSE i \in 1..Len(feeds) :
             /\ name \in DOMAIN feeds[i].attributes
             /\ \A j \in (i + 1)..Len(feeds) : name \notin DOMAIN feeds[j].attributes]
       .attributes[name]]

\* GTFS.merge(feeds)
merge(feeds) ==
  IF Len(feeds) = 1 THEN feeds[1]
  ELSE LET Merged(dupes) ==
             [name |-> "merged",
              stops |-> UniqByStopId(FlatMap(feeds, LAMBDA feed :
                          updateIds(feed.stops, {"stopId", "parentStation"},
                                    stopMapping(feed, dupes)))),
              stopTimes |-> FlatMap(feeds, LAMBDA feed :
                          updateIds(feed.stopTimes, {"stopId"}, stopMapping(feed, dupes))),
              transfers |-> FlatMap(feeds, LAMBDA feed :
                          updateIds(feed.transfers, {"fromStopId", "toStopId"},
                                    stopMapping(feed, dupes))),
              attributes |-> mergeAttributes(feeds)]
       IN Merged(dupeStopIds(FlatMap(feeds, LAMBDA feed : feed.stops)))

\* The number of directories in gtfs_data_dirs.
MaxFeeds == 3

\* gtfs_data_dirs: some of the directories, each once.
DirectoryLists ==
  {dirs \in UNION {[1..n -> Directories] : n \in 1..MaxFeeds} : NoRepeat(dirs)}

Call(fn, given) == [fn |-> fn, at |-> "called", given |-> given, returned |-> Null]
Returned(call, value) == [call EXCEPT !.at = "returned", !.returned = value]

Calls ==
  {Call("computeTransfers", feed) : feed \in StationFeeds}
  \cup {Call("getExplicitTransfers", feed) : feed \in StationFeeds}
  \cup {Call("filterServicesByDate", given) : given \in ServiceCalls}
  \cup {Call("merge", [feeds |-> [i \in 1..Len(dirs) |-> GTFSload(dirs[i])]]) :
            dirs \in DirectoryLists}

\* No router is started while a loading function is called on its own.
LoadInit ==
  /\ load \in Calls
  /\ loadOptions \in LoadingOptionSet
  /\ heap = <<>>
  /\ router = Null
  /\ pc = "loading"
  /\ query = NoQuery
  /\ qfeed = Null
  /\ rs = NoRaptor
  /\ result = NoResult

\* this.walkingTransfers = this.computeTransfers(feed, options), of a feed loaded
\* from one directory.
ComputeTransfers ==
  /\ load.fn = "computeTransfers" /\ load.at = "called"
  /\ load' = Returned(load,
       [id \in StopIds |->
          computeTransfers(load.given.stops, load.given.transfers,
                           Attributes(FeedName, load.given.transfers),
                           Extend(defaultLoadingOptions, loadOptions.opts), id)])
  /\ UNCHANGED <<loadOptions, heap, router, pc, query, qfeed, rs, result>>

\* getExplicitTransfers(stops, transfers)
GetExplicitTransfers ==
  /\ load.fn = "getExplicitTransfers" /\ load.at = "called"
  /\ load' = Returned(load,
       [id \in StopIds |->
          getExplicitTransfers(load.given.stops, load.given.transfers, id)])
  /\ UNCHANGED <<loadOptions, heap, router, pc, query, qfeed, rs, result>>

\* filterServicesByDate(allServices, this.calendars, this.calendarDates, departureDate)
FilterServicesByDate ==
  /\ load.fn = "filterServicesByDate" /\ load.at = "called"
  /\ load' = Returned(load,
       filterServicesByDate(load.given.services, load.given.calendars,
                            load.given.calendarDates, load.given.date))
  /\ UNCHANGED <<loadOptions, heap, router, pc, query, qfeed, rs, result>>

\* GTFS.merge(feeds), of the feeds GTFS.feed loaded
Merge ==
  /\ load.fn = "merge" /\ load.at = "called"
  /\ load' = Returned(load, merge(load.given.feeds))
  /\ UNCHANGED <<loadOptions, heap, router, pc, query, qfeed, rs, result>>

LoadNext ==
  \/ ComputeTransfers
  \/ GetExplicitTransfers
  \/ FilterServicesByDate
  \/ Merge

LoadSpec == LoadInit /\ [][LoadNext]_vars

WalkingTransfersBuilt == load.fn = "computeTransfers" /\ load.at = "returned"

Destinations(list) == [i \in 1..Len(list) |-> list[i].stopId]

\* C14: in the walkingTransfers map of an indexed feed, the list of every stop s has
\* no edge back to s and at most one edge to any destination stop.
C14_NoLoopNoDuplicate ==
  WalkingTransfersBuilt =>
    \A s \in DOMAIN load.returned :
       /\ s \notin Range(Destinations(load.returned[s]))
       /\ NoRepeat(Destinations(load.returned[s]))


ExplicitTransfersBuilt == load.fn = "getExplicitTransfers" /\ load.at = "returned"

\* A stop and its child stops.
Station(stops, id) == {id} \cup Range(indexParents(stops, id))

\* The edges from a to b in a transfer map.
EdgesTo(map, a, b) == {i \in 1..Len(map[a]) : map[a][i].stopId = b}

\* The MIN_TIME rows of transfers.txt that reach from a to b, by row number.
Covering(stops, transfers, a, b) ==
  {i \in 1..Len(transfers) :
     /\ transfers[i].type = "MIN_TIME"
     /\ a \in Station(stops, transfers[i].fromStopId)
     /\ b \in Station(stops, transfers[i].toStopId)}

SameStation(stops, a, b) ==
  \E P \in Range(ParentOrder(stops)) : {a, b} \subseteq Station(stops, P)

\* C15 as stated: getExplicitTransfers yields an edge in both directions between every
\* two distinct stops of a station, and for every MIN_TIME transfer from F to T an edge
\* carrying its minTransferTime for every ordered pair of distinct stops of the
\* station of F and the station of T; transfers of other types yield no edge.
C15_EveryTransferYieldsItsEdge ==
  ExplicitTransfersBuilt =>
    \A a \in StopIds : \A b \in StopIds \ {a} :
       /\ SameStation(load.given.stops, a, b) => EdgesTo(load.returned, a, b) # {}
       /\ \A i \in Covering(load.given.stops, load.given.transfers, a, b) :
            \E e \in EdgesTo(load.returned, a, b) :
               load.returned[a][e].secs = <<load.given.transfers[i].minTransferTime>>
       /\ (~ SameStation(load.given.stops, a, b)
           /\ Covering(load.given.stops, load.given.transfers, a, b) = {})
            => EdgesTo(load.returned, a, b) = {}


FirstRow(rows) == CHOOSE i \in rows : \A j \in rows : i <= j

\* C15, amended: between two distinct stops getExplicitTransfers yields at most one
\* edge; it carries the minTransferTime of the first MIN_TIME row of transfers.txt
\* that reaches from the station of its from-stop to the station of its to-stop over
\* the two stops, or else 0 when one station holds both stops; there is no other edge
\* and no edge from a stop to itself.
C15_FirstRowDecidesTheEdge ==
  ExplicitTransfersBuilt =>
    \A a \in StopIds :
       /\ EdgesTo(load.returned, a, a) = {}
       /\ \A b \in StopIds \ {a} :
            LET Decided(rows, edges) ==
                  /\ Cardinality(edges) <= 1
                  /\ rows # {} =>
                       \E e \in edges : load.returned[a][e].secs
                                        = <<load.given.transfers[FirstRow(rows)].minTransferTime>>
                  /\ (rows = {} /\ SameStation(load.given.stops, a, b)) =>
                       \E e \in edges : load.returned[a][e].secs = <<0>>
                  /\ (rows = {} /\ ~ SameStation(load.given.stops, a, b)) => edges = {}
            IN Decided(Covering(load.given.stops, load.given.transfers, a, b),
                       EdgesTo(load.returned, a, b))

\* Two rows of different times reach over one pair of stops, and another pair of one
\* station is reached by no row.
C15_Witness ==
  /\ ExplicitTransfersBuilt
  /\ \E a \in StopIds : \E b \in StopIds \ {a} :
       \E i, j \in Covering(load.given.stops, load.given.transfers, a, b) :
          load.given.transfers[i].minTransferTime # load.given.transfers[j].minTransferTime
  /\ \E a \in StopIds : \E b \in StopIds \ {a} :
       /\ SameStation(load.given.stops, a, b)
       /\ Covering(load.given.stops, load.given.transfers, a, b) = {}
       /\ EdgesTo(load.returned, a, b) # {}


ServicesFiltered == load.fn = "filterServicesByDate" /\ load.at = "returned"

\* The days of the week of the departure dates, Sunday being 0: 2 January 2017 was a
\* Monday, 6 January a Friday, 7 January a Saturday and 1 February a Wednesday.
WeekdayOf == (20170102 :> 1) @@ (20170106 :> 5) @@ (20170107 :> 6) @@ (20170201 :> 3)

\* The calendar row's bit for a day of the week.
RunsOn(row, weekday) ==
  CASE weekday = 0 -> row.sunday
    [] weekday = 1 -> row.monday
    [] weekday = 2 -> row.tuesday
    [] weekday = 3 -> row.wednesday
    [] weekday = 4 -> row.thursday
    [] weekday = 5 -> row.friday
    [] weekday = 6 -> row.saturday

Excludes(row, date) ==
  \/ date < row.start_date
  \/ date > row.end_date
  \/ ~ RunsOn(row, WeekdayOf[date])

\* The rows of calendar_dates.txt for a date and a service, by row number.
ExceptionsOn(calendarDates, date, id) ==
  {i \in 1..Len(calendarDates) :
     calendarDates[i].date = date /\ calendarDates[i].service_id = id}

LastRow(rows) == CHOOSE i \in rows : \A j \in rows : j <= i

FeedsMerged == load.fn = "merge" /\ load.at = "returned" /\ Len(load.given.feeds) >= 2

\* Is a stop id in two feeds at places that differ?
Differing(feeds, id) ==
  \E i \in 1..Len(feeds) : \E j \in 1..Len(feeds) :
     /\ i # j
     /\ \E s \in Range(feeds[i].stops) : \E t \in Range(feeds[j].stops) :
          /\ s.stopId = id /\ t.stopId = id
          /\ (s.stopLat # t.stopLat \/ s.stopLng # t.stopLng)

\* The id that a feed's reference to a stop has in the merged feed.
NewId(feeds, f, id) ==
  IF Differing(feeds, id) /\ \E s \in Range(feeds[f].stops) : s.stopId = id
  THEN feeds[f].name \o "_" \o id ELSE id

\* Where a feed placed the stop it knows by an id.
PlacedAt(feed, id) ==
  {<<s.stopLat, s.stopLng>> : s \in {t \in Range(feed.stops) : t.stopId = id}}

\* C17: GTFS.merge of two or more feeds renames a stop id to <feedName>_<stopId>
\* exactly when the id is in two feeds at differing places, renames each feed's
\* stops (stopId, parentStation), stop-times and transfers alike, and keeps one record
\* of the stops that share id and place; merged stop ids are unique and every
\* stop-time names a merged stop that is where the stop-time's own feed placed it.
C17_MergeRenamesConsistently ==
  FeedsMerged =>
    LET Right(feeds, merged) ==
          /\ \A f \in 1..Len(feeds) : \A s \in Range(feeds[f].stops) :
               \E m \in Range(merged.stops) :
                  /\ m.stopId = NewId(feeds, f, s.stopId)
                  /\ m.stopLat = s.stopLat /\ m.stopLng = s.stopLng
                  /\ Differing(feeds, s.stopId) =>
                       m.parentStation = NewId(feeds, f, s.parentStation)
          /\ \A m \in Range(merged.stops) :
               \E f \in 1..Len(feeds) : \E s \in Range(feeds[f].stops) :
                  m.stopId = NewId(feeds, f, s.stopId)
          /\ merged.stopTimes =
               Flatten([f \in 1..Len(feeds) |->
                  [i \in 1..Len(feeds[f].stopTimes) |->
                     [feeds[f].stopTimes[i] EXCEPT
                        !.stopId = NewId(feeds, f, feeds[f].stopTimes[i].stopId)]]])
          /\ merged.transfers =
               Flatten([f \in 1..Len(feeds) |->
                  [i \in 1..Len(feeds[f].transfers) |->
                     [feeds[f].transfers[i] EXCEPT
                        !.fromStopId = NewId(feeds, f, feeds[f].transfers[i].fromStopId),
                        !.toStopId = NewId(feeds, f, feeds[f].transfers[i].toStopId)]]])
          /\ NoRepeat([i \in 1..Len(merged.stops) |-> merged.stops[i].stopId])
          /\ \A f \in 1..Len(feeds) : \A st \in Range(feeds[f].stopTimes) :
               \E m \in Range(merged.stops) :
                  /\ m.stopId = NewId(feeds, f, st.stopId)
                  /\ <<m.stopLat, m.stopLng>> \in PlacedAt(feeds[f], st.stopId)
    IN Right(load.given.feeds, load.returned)


\* The Transit entries of the rounds, each with the trip it rides.
TransitTrips(st) ==
  {tripIdToTrip[Reach(st, e[1], e[2]).tripId] :
     e \in {x \in Entries(st) : Reach(st, x[1], x[2]).mode = "Transit"}}

\* The multiplier the options give to the mode of a route.
ModeMultiplier(options, route_id) ==
  IF (CHOOSE r \in Range(RawRoutes) : r.route_id = route_id).route_type = "Bus"
  THEN options["bus_multiplier"][1] ELSE options["rail_multiplier"][1]

\* C18: no Transit entry of any round uses a trip the query options switch off: the
\* route of its trip is not listed in exclude_routes and the multiplier of its mode
\* is not negative.
C18_NoSwitchedOffTrip ==
  InRaptor =>
    \A trip \in TransitTrips(rs) :
       /\ \A i \in 1..Len(query.complete["exclude_routes"][1]) :
            query.complete["exclude_routes"][1][i] # trip.route_id
       /\ ~ (ModeMultiplier(query.complete, trip.route_id) < 0)

\* raptor has returned rides although a trip of a switched-off route or mode left a
\* stop of the first round within the waiting time.
C18_Witness ==
  /\ RaptorReturned
  /\ TransitTrips(rs) # {}
  /\ \E id \in DOMAIN Round(rs, 0).ref : \E i \in 1..Len(RawStopTimes) :
       /\ RawStopTimes[i].stopId = id
       /\ RawStopTimes[i].timeOfDaySec >= Reach(rs, 0, id).timeOfDaySec
       /\ RawStopTimes[i].timeOfDaySec
            <= Reach(rs, 0, id).timeOfDaySec + query.complete["max_waiting_time_secs"][1]
       /\ \E j \in 1..Len(RawStopTimes) :
            /\ RawStopTimes[j].tripId = RawStopTimes[i].tripId
            /\ RawStopTimes[j].stopSequence > RawStopTimes[i].stopSequence
       /\ ModeMultiplier(query.complete, tripIdToTrip[RawStopTimes[i].tripId].route_id) < 0


\* The round that is being filled, or was filled last.
LastRound(st) == Len(st.tau) - 1

\* The costs a candidate for a stop is tried with: around the stored cost.
CandidateCosts(st, k, id) ==
  IF Has(st, k, id)
  THEN {Reach(st, k, id).cost - 1, Reach(st, k, id).cost, Reach(st, k, id).cost + 1}
  ELSE {0}

\* C19: addConnection replaces the entry of a stop in a round only when the stop has
\* no entry or the candidate costs strictly less; a candidate of equal cost leaves the
\* matrix as it is, so that the cost of a stop never rises within a round; the entry
\* it writes is marked isUnexplored.  A walking round that starts from the copied
\* entries of the round before keeps each of them unless it found a cheaper one, and
\* every entry of the round filled last is marked.
C19_OnlyStrictlyCheaperReplaces ==
  InRaptor =>
    /\ \A id \in Range(IdOrder) : \A cost \in CandidateCosts(rs, LastRound(rs), id) :
         LET Right(k, after) ==
               /\ Has(after, k, id)
               /\ Reach(after, k, id).cost <= cost
               /\ Has(rs, k, id) => Reach(after, k, id).cost <= Reach(rs, k, id).cost
               /\ IF Has(rs, k, id) /\ Reach(rs, k, id).cost <= cost
                  THEN after = rs
                  ELSE /\ Reach(after, k, id)
                            = [timeOfDaySec |-> rs.timeOfDaySec + 1, cost |-> cost,
                               previousStopId |-> rs.stopId, mode |-> "Walk",
                               tripId |-> Null, isUnexplored |-> TRUE,
                               prevK |-> <<k - 1>>]
                       /\ \A j \in 0..LastRound(rs) : \A other \in DOMAIN Round(rs, j).ref :
                            <<j, other>> # <<k, id>> =>
                              Has(after, j, other) /\ Reach(after, j, other) = Reach(rs, j, other)
         IN Right(LastRound(rs),
                  addConnection(rs, LastRound(rs), id, rs.timeOfDaySec + 1, cost, rs.stopId,
                                "Walk", Null, LastRound(rs) - 1))
    /\ \A i \in 1..Len(rs.rounds) :
         (rs.rounds[i].kind = "walk" /\ rs.rounds[i].k >= 2) =>
           \A id \in DOMAIN Round(rs, rs.rounds[i].k).ref :
              Has(rs, rs.rounds[i].k - 1, id) =>
                \/ Round(rs, rs.rounds[i].k).ref[id] = Round(rs, rs.rounds[i].k - 1).ref[id]
                \/ Reach(rs, rs.rounds[i].k, id).cost < Reach(rs, rs.rounds[i].k - 1, id).cost
    /\ rs.at \in {"initialWalk", "takeVehicles", "makeTransfers", "clear"} =>
         \A id \in DOMAIN Round(rs, LastRound(rs)).ref :
            Reach(rs, LastRound(rs), id).isUnexplored

\* A walking round has replaced the entry of a stop, copied from the round before, by
\* a walk that costs less.
C19_Witness ==
  /\ InRaptor
  /\ \E i \in 1..Len(rs.rounds) :
       /\ rs.rounds[i].kind = "walk" /\ rs.rounds[i].k >= 2
       /\ \E id \in DOMAIN Round(rs, rs.rounds[i].k).ref :
            /\ Has(rs, rs.rounds[i].k - 1, id)
            /\ Reach(rs, rs.rounds[i].k, id).mode = "Walk"
            /\ Reach(rs, rs.rounds[i].k, id).cost < Reach(rs, rs.rounds[i].k - 1, id).cost


\* tau[e.prevK][e.previousStopId], for the entry tau[k][id]
Predecessor(st, k, id) == Reach(st, Reach(st, k, id).prevK[1], Reach(st, k, id).previousStopId)

\* The stop-times of a trip at a stop.
CallsAt(tripId, stopId) == {x \in Range(RawStopTimes) : x.tripId = tripId /\ x.stopId = stopId}

\* The seconds of a footpath: the explicit seconds, else km * 3600 / walking_speed_kph.
EdgeSecs(edge, options) ==
  IF Len(edge.secs) = 1 THEN edge.secs[1]
  ELSE (edge.km[1] * 3600) \div options["walking_speed_kph"][1]

\* The footpaths out of a stop in the feed of the request.
EdgesFrom(stopId) ==
  IF stopId \in DOMAIN heap[qfeed.walkingTransfers]
  THEN Range(heap[heap[qfeed.walkingTransfers][stopId]]) ELSE {}

\* C20: every entry e that is not the origin obeys the recurrence against
\* p = tau[e.prevK][e.previousStopId].  A Transit entry boarded at stop-time A and
\* alighting at stop-time B of one trip has the time of B and the cost
\* p.cost + (A.time - p.time) + multiplier * (B.time - A.time); a Walk entry over a
\* footpath of secs seconds has the time p.time + secs and the cost p.cost + secs.
C20_CostAndTimeRecurrence ==
  InRaptor =>
    \A x \in Entries(rs) :
       LET Obeys(e, id, p) ==
             CASE e.mode = "Transit" ->
                    \E A \in CallsAt(e.tripId, e.previousStopId) : \E B \in CallsAt(e.tripId, id) :
                       /\ A.stopSequence < B.stopSequence
                       /\ A.timeOfDaySec >= p.timeOfDaySec
                       /\ e.timeOfDaySec = B.timeOfDaySec
                       /\ e.cost = p.cost + (A.timeOfDaySec - p.timeOfDaySec)
                                   + ModeMultiplier(query.complete,
                                                    tripIdToTrip[e.tripId].route_id)
                                     * (B.timeOfDaySec - A.timeOfDaySec)
               [] e.mode = "Walk" ->
                    \E edge \in EdgesFrom(e.previousStopId) :
                       /\ edge.stopId = id
                       /\ e.timeOfDaySec = p.timeOfDaySec + EdgeSecs(edge, query.complete)
                       /\ e.cost = p.cost + EdgeSecs(edge, query.complete)
               [] OTHER -> FALSE
       IN Reach(rs, x[1], x[2]).mode # "Origin" =>
            /\ Len(Reach(rs, x[1], x[2]).prevK) = 1
            /\ Has(rs, Reach(rs, x[1], x[2]).prevK[1], Reach(rs, x[1], x[2]).previousStopId)
            /\ Obeys(Reach(rs, x[1], x[2]), x[2], Predecessor(rs, x[1], x[2]))

\* raptor has returned a ride that was waited for at a multiplier other than 1, and a
\* walk that starts where a ride ended.
C20_Witness ==
  /\ RaptorReturned
  /\ \E x \in Entries(rs) :
       /\ Reach(rs, x[1], x[2]).mode = "Transit"
       /\ ModeMultiplier(query.complete, tripIdToTrip[Reach(rs, x[1], x[2]).tripId].route_id) > 1
       /\ \E A \in CallsAt(Reach(rs, x[1], x[2]).tripId, Reach(rs, x[1], x[2]).previousStopId) :
            A.timeOfDaySec > Predecessor(rs, x[1], x[2]).timeOfDaySec
  /\ \E x \in Entries(rs) :
       /\ Reach(rs, x[1], x[2]).mode = "Walk"
       /\ Predecessor(rs, x[1], x[2]).mode = "Transit"


\* The stops listed in exclude_stops.
ExcludedStops(options) ==
  IF Len(options["exclude_stops"]) = 1 THEN Range(options["exclude_stops"][1]) ELSE {}

\* The stop-times of an admissible trip that a boarding round boards at a stop reached
\* at a time: within the waiting time and not past the last valid time.
Boarded(stopId, time, options, lastValid) ==
  {A \in Range(RawStopTimes) :
     /\ A.stopId = stopId
     /\ A.timeOfDaySec >= time
     /\ A.timeOfDaySec <= time + options["max_waiting_time_secs"][1]
     /\ A.timeOfDaySec <= lastValid
     /\ tripIdToTrip[A.tripId].route_id \notin Range(options["exclude_routes"][1])
     /\ ModeMultiplier(options, tripIdToTrip[A.tripId].route_id) >= 0}

\* The later stop-times of the trip of A.
Downstream(A) ==
  {B \in Range(RawStopTimes) : B.tripId = A.tripId /\ B.stopSequence > A.stopSequence}

\* The stop-times of the trip after A and before B.
Between(A, B) ==
  {C \in Downstream(A) : C.stopSequence < B.stopSequence}

\* The candidate for B, boarded at A from the entry p, came into tau[k]: the stop of B
\* has an entry that costs no more.
CandidateCame(st, k, p, A, B, options) ==
  /\ Has(st, k, B.stopId)
  /\ Reach(st, k, B.stopId).cost
       <= p.cost + (A.timeOfDaySec - p.timeOfDaySec)
          + ModeMultiplier(options, tripIdToTrip[A.tripId].route_id)
            * (B.timeOfDaySec - A.timeOfDaySec)

\* C21: in a boarding round, for each boarded stop-time of an admissible trip, every
\* later stop-time of the trip whose stop is not in exclude_stops and whose time is
\* not past lastValidTimeSecs gives a candidate connection into tau[k], those after an
\* excluded stop of the trip included.
C21_EveryLaterStopTimeIsACandidate ==
  InRaptor =>
    \A k \in BoardingRounds(rs) : \A from \in DOMAIN Round(rs, k - 1).ref :
       \A A \in Boarded(from, Reach(rs, k - 1, from).timeOfDaySec, query.complete,
                        rs.lastValidTimeSecs) :
          \A B \in Downstream(A) :
             ( /\ B.stopId \notin ExcludedStops(query.complete)
               /\ B.timeOfDaySec <= rs.lastValidTimeSecs )
             => CandidateCame(rs, k, Reach(rs, k - 1, from), A, B, query.complete)

\* The same for the stop-times that no excluded stop of the trip comes before.
UpToAnExcludedStop ==
  InRaptor =>
    \A k \in BoardingRounds(rs) : \A from \in DOMAIN Round(rs, k - 1).ref :
       \A A \in Boarded(from, Reach(rs, k - 1, from).timeOfDaySec, query.complete,
                        rs.lastValidTimeSecs) :
          \A B \in Downstream(A) :
             ( /\ B.stopId \notin ExcludedStops(query.complete)
               /\ B.timeOfDaySec <= rs.lastValidTimeSecs
               /\ \A C \in Between(A, B) : C.stopId \notin ExcludedStops(query.complete) )
             => CandidateCame(rs, k, Reach(rs, k - 1, from), A, B, query.complete)


\* The stop-times a Transit step rides over after boarding: those of its trip after
\* its departure and up to its arrival.
RiddenOver(step) ==
  {x \in Range(RawStopTimes) :
     /\ x.tripId = step.tripId
     /\ x.timeOfDaySec > step.departTimeSecs
     /\ x.timeOfDaySec <= step.arriveTimeSecs}

\* The stops a route passes through: where its steps end and what its rides pass.
PassedThrough(route) ==
  {route.steps[i].to.stopId : i \in 1..Len(route.steps)}
    \cup UNION {{x.stopId : x \in RiddenOver(route.steps[i])} :
                  i \in {j \in 1..Len(route.steps) : route.steps[j].mode = "Transit"}}

\* C22: no stop of exclude_stops is recorded as reached: no round k >= 1 of tau has
\* such a stop among its keys, and no returned route passes through one.
C22_NoExcludedStopIsReached ==
  /\ InRaptor =>
       \A e \in Entries(rs) : e[1] >= 1 => e[2] \notin ExcludedStops(query.complete)
  /\ (pc = "result" /\ result.kind = "route") =>
       PassedThrough(result.value) \cap ExcludedStops(query.complete) = {}

\* A route came back with a ride that another trip also makes, from the same stop to
\* the same stop, past a stop of exclude_stops.
C22_Witness ==
  /\ pc = "result"
  /\ result.kind = "route"
  /\ \E i \in 1..Len(result.value.steps) :
       /\ result.value.steps[i].mode = "Transit"
       /\ \E A \in CallsAt(result.value.steps[i].tripId, result.value.steps[i].from.stopId) :
            \E A2 \in Range(RawStopTimes) :
              /\ A2.stopId = A.stopId
              /\ A2.tripId # A.tripId
              /\ \E B \in Downstream(A2) :
                   /\ B.stopId = result.value.steps[i].to.stopId
                   /\ \E C \in Between(A2, B) : C.stopId \in ExcludedStops(query.complete)

\* C23: no journey of tau holds two walks in a row: what a Walk entry points back to
\* is an Origin or a Transit entry, and no returned route walks twice in succession.
C23_NoWalkAfterWalk ==
  /\ InRaptor =>
       \A e \in Entries(rs) :
         Reach(rs, e[1], e[2]).mode = "Walk" =>
           /\ Has(rs, Reach(rs, e[1], e[2]).prevK[1], Reach(rs, e[1], e[2]).previousStopId)
           /\ Predecessor(rs, e[1], e[2]).mode \in {"Origin", "Transit"}
  /\ (pc = "result" /\ result.kind = "route") =>
       \A i \in 1..(Len(result.value.steps) - 1) :
         ~(result.value.steps[i].mode = "Walk" /\ result.value.steps[i + 1].mode = "Walk")

\* A route between two places that are no stops came back: a walk, a ride, a walk.
C23_Witness ==
  /\ pc = "result"
  /\ result.kind = "route"
  /\ query.op = "oneToOne"
  /\ Len(result.value.steps) = 3
  /\ result.value.steps[1].mode = "Walk"
  /\ result.value.steps[2].mode = "Transit"
  /\ result.value.steps[3].mode = "Walk"

\* The latest time of day a request with max_commute_time_secs = M may use.
CommuteLimit == query.departureSecs + query.complete["max_commute_time_secs"][1]

\* C24: with max_commute_time_secs = M >= 0, no entry of any round has a time of day
\* after depSecs + M, and no Transit entry was boarded at a stop-time after depSecs + M.
C24_NothingPastTheCommuteLimit ==
  (InRaptor /\ query.complete["max_commute_time_secs"][1] >= 0) =>
    \A e \in Entries(rs) :
      /\ Reach(rs, e[1], e[2]).timeOfDaySec <= CommuteLimit
      /\ Reach(rs, e[1], e[2]).mode = "Transit" =>
           \A A \in CallsAt(Reach(rs, e[1], e[2]).tripId,
                             Reach(rs, e[1], e[2]).previousStopId) :
             A.timeOfDaySec <= CommuteLimit

\* A finite limit cut a ride short: a trip was boarded and ridden, and a later stop of
\* it lies past the limit.
C24_Witness ==
  /\ InRaptor
  /\ query.complete["max_commute_time_secs"][1] >= 0
  /\ query.complete["max_commute_time_secs"][1] < Infinity
  /\ \E e \in Entries(rs) :
       /\ Reach(rs, e[1], e[2]).mode = "Transit"
       /\ \E B \in Range(RawStopTimes) :
            /\ B.tripId = Reach(rs, e[1], e[2]).tripId
            /\ B.timeOfDaySec > Reach(rs, e[1], e[2]).timeOfDaySec
            /\ B.timeOfDaySec > CommuteLimit

\* C25: every Transit entry was boarded within the waiting window: the stop-time it
\* was boarded at leaves no earlier than the time of the entry it points back to and
\* no later than max_waiting_time_secs after it.
C25_BoardedWithinTheWaitingWindow ==
  InRaptor =>
    \A e \in Entries(rs) :
      Reach(rs, e[1], e[2]).mode = "Transit" =>
        /\ Has(rs, Reach(rs, e[1], e[2]).prevK[1], Reach(rs, e[1], e[2]).previousStopId)
        /\ CallsAt(Reach(rs, e[1], e[2]).tripId, Reach(rs, e[1], e[2]).previousStopId) # {}
        /\ \A A \in CallsAt(Reach(rs, e[1], e[2]).tripId,
                             Reach(rs, e[1], e[2]).previousStopId) :
             /\ Predecessor(rs, e[1], e[2]).timeOfDaySec <= A.timeOfDaySec
             /\ A.timeOfDaySec <= Predecessor(rs, e[1], e[2]).timeOfDaySec
                                    + query.complete["max_waiting_time_secs"][1]

\* A trip was boarded at a stop where one vehicle had already left when the traveller
\* came and another leaves after the window.
C25_Witness ==
  /\ InRaptor
  /\ \E e \in Entries(rs) :
       /\ Reach(rs, e[1], e[2]).mode = "Transit"
       /\ \E X, Y \in Range(RawStopTimes) :
            /\ X.stopId = Reach(rs, e[1], e[2]).previousStopId
            /\ Y.stopId = Reach(rs, e[1], e[2]).previousStopId
            /\ X.timeOfDaySec < Predecessor(rs, e[1], e[2]).timeOfDaySec
            /\ Y.timeOfDaySec > Predecessor(rs, e[1], e[2]).timeOfDaySec
                                   + query.complete["max_waiting_time_secs"][1]

\* The edges pushed from a to b before the de-duplication, in push order: those of the
\* MIN_TIME rows, then the free ones inside a station.
Candidates(stops, transfers, a, b) ==
  Select(PushedFor(MinTimePushes(stops, transfers) \o ParentPushes(stops), a),
         LAMBDA t : t.stopId = b)

\* C26 as stated: of several candidate edges from one stop to one destination, the
\* de-duplication keeps the single edge of the smallest secs.
C26_SmallestEdgeIsKept ==
  ExplicitTransfersBuilt =>
    \A a \in StopIds : \A b \in StopIds :
      LET Kept(cands, edges) ==
            Len(cands) > 0 =>
              /\ Cardinality(edges) = 1
              /\ \A e \in edges : \A i \in 1..Len(cands) :
                    load.returned[a][e].secs[1] <= cands[i].secs[1]
      IN Kept(Candidates(load.given.stops, load.given.transfers, a, b),
              EdgesTo(load.returned, a, b))

\* C26, amended: of several candidate edges from one stop to one destination, the
\* de-duplication keeps the single edge that was pushed first, whatever its secs: an
\* edge of a MIN_TIME row before a later row's, and both before the free edge
\* inside a station.
C26_FirstPushedEdgeIsKept ==
  ExplicitTransfersBuilt =>
    \A a \in StopIds : \A b \in StopIds :
      LET Kept(cands, edges) ==
            Len(cands) > 0 =>
              /\ Cardinality(edges) = 1
              /\ \A e \in edges : load.returned[a][e] = cands[1]
      IN Kept(Candidates(load.given.stops, load.given.transfers, a, b),
              EdgesTo(load.returned, a, b))

\* A MIN_TIME edge of some seconds and the free edge of one station were pushed for
\* one pair of stops, the MIN_TIME edge first, and the edge kept carries its seconds.
C26_Witness ==
  /\ ExplicitTransfersBuilt
  /\ \E a \in StopIds : \E b \in StopIds :
       LET Overridden(cands, edges) ==
             /\ Len(cands) >= 2
             /\ cands[1].secs[1] > 0
             /\ \E i \in 2..Len(cands) : cands[i].secs = <<0>>
             /\ \E e \in edges : load.returned[a][e].secs = cands[1].secs
       IN Overridden(Candidates(load.given.stops, load.given.transfers, a, b),
                     EdgesTo(load.returned, a, b))


RECURSIVE Hops(_, _, _)
\* The number of back-pointers between tau[k][id] and the Origin entry.
Hops(st, k, id) ==
  IF Reach(st, k, id).mode = "Origin" THEN 0
  ELSE 1 + Hops(st, Reach(st, k, id).prevK[1], Reach(st, k, id).previousStopId)

\* The distances of the Walk steps of a list of steps.
WalkedKm(steps) == [i \in 1..Len(steps) |-> IF steps[i].mode = "Walk" THEN steps[i].distanceKm[1] ELSE 0]

\* A route is the chain of some entry of the matrix for its destination.
IsChainOf(st, route) ==
  /\ \E k \in 0..LastRound(st) :
       /\ Has(st, k, route.destination.id)
       /\ Len(route.steps) = Hops(st, k, route.destination.id)
       /\ route.arriveTimeSecs = Reach(st, k, route.destination.id).timeOfDaySec
  /\ Len(route.steps) > 0 =>
       /\ route.steps[1].from.stopId = route.origin.id
       /\ route.steps[Len(route.steps)].to.stopId = route.destination.id
       /\ route.arriveTimeSecs = route.steps[Len(route.steps)].arriveTimeSecs
  /\ \A i \in 1..(Len(route.steps) - 1) :
       route.steps[i + 1].from.stopId = route.steps[i].to.stopId
  /\ route.travelTimeSecs = route.arriveTimeSecs - route.departureSecs
  /\ route.walkingDistanceKm = Sum(WalkedKm(route.steps))

\* C27: every route that stopToStop or oneToOne returns is a connected chain read off
\* the back-pointers of the matrix: a step for each hop, from the origin, each step
\* from where the one before it ended, to the destination; it arrives when its last
\* step arrives, travels from the departure until then, and its walking distance is
\* the sum over its Walk steps.
C27_RouteIsAConnectedChain ==
  [][(pc = "routing" /\ pc' = "result" /\ result'.kind = "route")
       => IsChainOf(rs, result'.value)]_vars

\* A route of a walk, a ride and a walk came back from oneToOne whose walking distance
\* adds up two walks.
C27_Witness ==
  /\ pc = "result"
  /\ result.kind = "route"
  /\ Len(result.value.steps) >= 3
  /\ result.value.steps[1].mode = "Walk"
  /\ result.value.steps[1].distanceKm[1] > 0
  /\ result.value.steps[Len(result.value.steps)].mode = "Walk"
  /\ result.value.steps[Len(result.value.steps)].distanceKm[1] > 0
  /\ result.value.walkingDistanceKm
       = result.value.steps[1].distanceKm[1]
         + result.value.steps[Len(result.value.steps)].distanceKm[1]


\* When the step before step i of a route arrives: the departure, for the first step.
ArrivalBefore(route, i) ==
  IF i = 1 THEN route.departureSecs ELSE route.steps[i - 1].arriveTimeSecs

\* A Transit step rides its trip from a stop-time at the stop it starts from to a
\* later stop-time at the stop it ends at, and counts the stops between them.
RidesTheTrip(step) ==
  /\ Len(step.numStops) = 1
  /\ step.numStops[1] >= 1
  /\ \E A \in CallsAt(step.tripId, step.from.stopId) :
       /\ A.timeOfDaySec = step.departTimeSecs
       /\ \E B \in Downstream(A) :
            /\ B.stopId = step.to.stopId
            /\ B.timeOfDaySec = step.arriveTimeSecs

\* C28: the steps of every returned route are ordered in time: a step arrives no
\* earlier than it departs and departs no earlier than the step before it arrives (the
\* first no earlier than the departure of the route); a Walk step departs exactly
\* then; a Transit step departs at the time of the stop-time that was boarded and
\* counts at least one stop, on trips that call at a stop more than once too.
C28_StepsAreOrderedInTime ==
  (pc = "result" /\ result.kind = "route") =>
    \A i \in 1..Len(result.value.steps) :
      /\ result.value.steps[i].arriveTimeSecs >= result.value.steps[i].departTimeSecs
      /\ result.value.steps[i].departTimeSecs >= ArrivalBefore(result.value, i)
      /\ result.value.steps[i].mode = "Walk" =>
           result.value.steps[i].departTimeSecs = ArrivalBefore(result.value, i)
      /\ result.value.steps[i].mode = "Transit" => RidesTheTrip(result.value.steps[i])


\* The same for the routes that ride no trip calling twice at a stop.
OnTripsThatCallOnce ==
  (/\ pc = "result"
   /\ result.kind = "route"
   /\ \A i \in 1..Len(result.value.steps) :
        result.value.steps[i].mode = "Transit" =>
          \A id \in StopIds : Cardinality(CallsAt(result.value.steps[i].tripId, id)) <= 1)
    => C28_StepsAreOrderedInTime


\* The rounds of a matrix that were filled on foot.
WalkingRounds(st) == {st.rounds[i].k : i \in {j \in 1..Len(st.rounds) : st.rounds[j].kind = "walk"}}

\* tau[k][id] arrives no later than a candidate arriving at the given time.
ArrivesBy(st, k, id, time) == Has(st, k, id) /\ Reach(st, k, id).timeOfDaySec <= time

\* The rides offered to a boarding round arrive no earlier than the entry it keeps.
KeptRidesAreEarliest(st, options) ==
  \A k \in BoardingRounds(st) : \A from \in DOMAIN Round(st, k - 1).ref :
    \A A \in Boarded(from, Reach(st, k - 1, from).timeOfDaySec, options, st.lastValidTimeSecs) :
      \A B \in Downstream(A) :
        (/\ B.timeOfDaySec <= st.lastValidTimeSecs
         /\ B.stopId \notin ExcludedStops(options)
         /\ \A C \in Between(A, B) : C.stopId \notin ExcludedStops(options))
          => ArrivesBy(st, k, B.stopId, B.timeOfDaySec)

\* The walks offered to a walking round, and the entries copied into it, arrive no
\* earlier than the entry it keeps.
KeptWalksAreEarliest(st, options) ==
  \A k \in WalkingRounds(st) : \A from \in DOMAIN Round(st, k - 1).ref :
    /\ k - 1 \in BoardingRounds(st) =>
         ArrivesBy(st, k, from, Reach(st, k - 1, from).timeOfDaySec)
    /\ Reach(st, k - 1, from).mode # "Walk" =>
         \A edge \in EdgesFrom(from) :
           (/\ (Len(edge.km) = 1 => edge.km[1] <= options["max_walking_distance_km"][1])
            /\ edge.stopId \notin ExcludedStops(options)
            /\ Reach(st, k - 1, from).timeOfDaySec + EdgeSecs(edge, options)
                 <= st.lastValidTimeSecs)
             => ArrivesBy(st, k, edge.stopId,
                          Reach(st, k - 1, from).timeOfDaySec + EdgeSecs(edge, options))

\* Both multipliers of the request are 1.
PlainMultipliers ==
  /\ query.complete["bus_multiplier"] = <<1>>
  /\ query.complete["rail_multiplier"] = <<1>>

\* C29: with bus_multiplier = rail_multiplier = 1 the cost of every entry of every
\* round is its time of day less the departure; the entry a round keeps for a stop is
\* the earliest arrival offered to it in that round; and the travel time reported for
\* a destination is the cost of the entry chosen for it.
C29_CostIsElapsedTime ==
  (InRaptor /\ PlainMultipliers) =>
    /\ \A e \in Entries(rs) :
         Reach(rs, e[1], e[2]).cost = Reach(rs, e[1], e[2]).timeOfDaySec - query.departureSecs
    /\ KeptRidesAreEarliest(rs, query.complete)
    /\ KeptWalksAreEarliest(rs, query.complete)
    /\ RaptorReturned =>
         \A id \in Range(IdOrder) :
           \A route \in Range(oneToManyStopHelper(rs, query.departureSecs, <<id>>,
                                                  query.complete)[id]) :
             route.travelTimeSecs = Reach(rs, route.k, id).cost

\* With both multipliers 1, raptor has returned a matrix a round of which was offered
\* two rides to one stop, one arriving later than the entry kept, and in which the
\* entry chosen for a stop is a walk from where a ride ended.
C29_Witness ==
  /\ RaptorReturned
  /\ PlainMultipliers
  /\ \E k \in BoardingRounds(rs) : \E from \in DOMAIN Round(rs, k - 1).ref :
       \E A \in Boarded(from, Reach(rs, k - 1, from).timeOfDaySec, query.complete,
                        rs.lastValidTimeSecs) :
         \E B \in Downstream(A) :
           /\ Has(rs, k, B.stopId)
           /\ B.timeOfDaySec > Reach(rs, k, B.stopId).timeOfDaySec
  /\ \E id \in Range(IdOrder) :
       \E route \in Range(oneToManyStopHelper(rs, query.departureSecs, <<id>>,
                                              query.complete)[id]) :
         /\ Reach(rs, route.k, id).mode = "Walk"
         /\ Predecessor(rs, route.k, id).mode = "Transit"
         /\ route.travelTimeSecs > 0

RECURSIVE LeadsToTheOrigin(_, _, _, _)
\* The back-pointers from tau[k][id] reach the Origin entry of tau[0] within n hops,
\* each to an entry that exists in an earlier round.
LeadsToTheOrigin(st, k, id, n) ==
  IF Reach(st, k, id).mode = "Origin" THEN k = 0
  ELSE /\ n > 0
       /\ Len(Reach(st, k, id).prevK) = 1
       /\ Reach(st, k, id).prevK[1] \in 0..(k - 1)
       /\ Has(st, Reach(st, k, id).prevK[1], Reach(st, k, id).previousStopId)
       /\ LeadsToTheOrigin(st, Reach(st, k, id).prevK[1], Reach(st, k, id).previousStopId,
                           n - 1)

\* Every entry of the matrix leads back to the origin within as many hops as its
\* round, and numTransfers and traceRoute come to an end on it.
WellFounded(st, stopMap) ==
  \A e \in Entries(st) :
    /\ LeadsToTheOrigin(st, e[1], e[2], e[1])
    /\ numTransfers(st, e[1], e[2]) \in 0..e[1]
    /\ Len(traceRoute(st, e[2], e[1], stopMap)) \in 0..e[1]

\* The rounds a request has filled are the same maps of the same entries afterwards.
RoundsStay(st, next) ==
  /\ Len(next.tau) >= Len(st.tau)
  /\ \A k \in 0..LastRound(st) : Round(next, k).ref = Round(st, k).ref

\* C30: the back-pointers of tau are well founded while raptor runs and in the matrix
\* it returns: every entry but the Origin points to an entry of an earlier round that
\* exists and is not replaced afterwards, the pointers lead to the Origin of tau[0]
\* in at most k hops, and numTransfers and traceRoute come to an end on every entry,
\* the ones copied into a walking round included.
C30_BackPointersAreWellFounded ==
  [][/\ pc' = "routing" => WellFounded(rs', heap'[qfeed'.stopIdToStop])
     /\ (InRaptor /\ rs.at # "done" /\ pc' = "routing") => RoundsStay(rs, rs')]_vars

\* raptor has returned a matrix in which a Transit entry that was copied into a walking
\* round is three hops or more from the origin, and fewer than the number of its round.
C30_Witness ==
  /\ RaptorReturned
  /\ \E k \in WalkingRounds(rs) : \E id \in DOMAIN Round(rs, k).ref :
       /\ Reach(rs, k, id).mode = "Transit"
       /\ Hops(rs, k, id) >= 3
       /\ Hops(rs, k, id) < k

====
